---- MODULE Spec2Model ----
(***************************************************************************)
(* The controller of Synapse (crates/synapse-net/src/server.rs): the focus *)
(* manager, the input router (handle_input_message) and the connection     *)
(* handlers (handle_client), as one state machine; and the dialer          *)
(* (crates/synapse-net/src/client.rs, Client::connect), which runs in      *)
(* another process against whatever its server sends.                      *)
(*                                                                         *)
(* Coordinates are f64 in the source.  They are modelled as exact          *)
(* fixed-point numbers: the integer n stands for n / Scale pixels, where   *)
(* Scale = screen_w * screen_h, so that the divisions of entry_position    *)
(* are exact.  Px(v) is the fixed-point value of the whole pixel v.        *)
(***************************************************************************)
EXTENDS Integers, Sequences, FiniteSets, TLC

\* ---------------------------------------------------------------- bounds
\* The controller's screen (the screen_size argument of Server::run).
ScreenW == 7
ScreenH == 6
\* The router handles an event that sends to a peer only while that peer's
\* outbound queue holds at most MaxBacklog messages (the channel is unbounded
\* in the source).
MaxBacklog == 0

\* ------------------------------------------------------------- constants
EDGE_THRESHOLD == 2

Edges == {"Top", "Bottom", "Left", "Right"}
\* The connections the accept loop takes in one run: two, which is what a
\* replaced edge binding and a device id shared by two connections need.
AcceptOrder == <<"c1", "c2">>
Conns == {AcceptOrder[i] : i \in 1..Len(AcceptOrder)}
\* What a client may send as Hello: its device id and the size of
\* screens[0].
Hellos == {<<"a", 4, 3>>, <<"b", 2, 4>>}
DeviceIds == {h[1] : h \in Hellos}

Scale == ScreenW * ScreenH
Px(v) == v * Scale

\* ---------------------------------------------------------------- state
VARIABLES
    client_direction,  \* Server::run's client_direction
    screen_w,          \* FocusManager.screen_w
    screen_h,          \* FocusManager.screen_h
    center_x,          \* FocusManager.center_x
    center_y,          \* FocusManager.center_y
    state,             \* FocusManager.state
    edge_devices,      \* FocusManager.edge_devices, a set of map entries
    peers,             \* the PeerMap, a set of map entries
    queue,             \* per connection: its outgoing mpsc channel
    pc,                \* per connection: where handle_client stands
    hello,             \* per connection: what its Hello carried
    cancelled,         \* the CancellationToken
    router,            \* the input task of Server::run
    listener,          \* the accept loop of Server::run
    last,              \* the step just taken, and FocusManager.state before it
    sent,              \* messages the step enqueued for peers
    acts,              \* LocalActions the step queued
    evts,              \* ServerEvents the step emitted
    wrote,             \* frames the step wrote to a socket
    cpc,               \* Client::connect: where it stands
    ccancelled,        \* the client process's CancellationToken
    cresult,           \* what Client::connect returned
    clast,             \* the client step just taken
    cwrote,            \* frames the client step wrote to its socket
    cevts,             \* ClientEvents the step emitted
    cfwd,              \* messages the step passed to message_tx
    cclip,             \* the text on the dialer machine's clipboard
    codec,             \* a MessageCodec's buffers and its last call
    watcher,           \* ClipboardWatcher::watch's thread and its channel
    boot,              \* process start: the arguments and the threads
    pending,           \* per connection: the frame a suspended send holds
    desk,              \* the cursor, input_rx and local_action_rx
    locks,             \* the focus mutex, the registry RwLock, their users
    gui                \* the GUI backend's AppState and its session tasks

\* The controller's variables and the dialer's.
svars == <<client_direction, screen_w, screen_h, center_x, center_y, state,
           edge_devices, peers, queue, pc, hello, cancelled, router, listener,
           last, sent, acts, evts, wrote>>
cvars == <<cpc, ccancelled, cresult, clast, cwrote, cevts, cfwd, cclip>>
\* The codec's, the clipboard watcher's and the process's.
yvars == <<desk, locks, gui>>
xvars == <<codec, watcher, boot, pending, yvars>>

vars == <<client_direction, screen_w, screen_h, center_x, center_y, state,
          edge_devices, peers, queue, pc, hello, cancelled, router, listener,
          last, sent, acts, evts, wrote,
          cpc, ccancelled, cresult, clast, cwrote, cevts, cfwd, cclip,
          codec, watcher, boot, pending, yvars>>

config == <<client_direction, screen_w, screen_h, center_x, center_y>>

\* ------------------------------------------------------------- messages
MouseMove(x, y) == [type |-> "MouseMove", x |-> x, y |-> y]
MouseDelta(dx, dy) == [type |-> "MouseDelta", dx |-> dx, dy |-> dy]
EnterScreen(x, y) ==
    [type |-> "EnterScreen", screen_id |-> 0, x |-> x, y |-> y]
LeaveScreen(edge, x, y) ==
    [type |-> "LeaveScreen", screen_id |-> 0, edge |-> edge, x |-> x, y |-> y]
KeyEvent(key, action) == [type |-> "KeyEvent", key |-> key, action |-> action]
MouseButtonEvent(button, action) ==
    [type |-> "MouseButtonEvent", button |-> button, action |-> action]
MouseScroll(dx, dy) == [type |-> "MouseScroll", dx |-> dx, dy |-> dy]
ClipboardText(text) == [type |-> "ClipboardText", text |-> text]
ClipboardImage(w, h, data) ==
    [type |-> "ClipboardImage", width |-> w, height |-> h, data |-> data]
Ping(seq) == [type |-> "Ping", seq |-> seq]
Pong(seq) == [type |-> "Pong", seq |-> seq]
Bye(id) == [type |-> "Bye", device_id |-> id]
Hello(id, w, h) == [type |-> "Hello", device_id |-> id, w |-> w, h |-> h]
Welcome == [type |-> "Welcome"]

MoveMouse(x, y) == [type |-> "MoveMouse", x |-> x, y |-> y]

DeviceConnected(id) == [type |-> "DeviceConnected", device_id |-> id]
DeviceDisconnected(id) == [type |-> "DeviceDisconnected", device_id |-> id]
FocusChanged(target) == [type |-> "FocusChanged", target |-> target]

\* ---------------------------------------------------------- FocusManager
Local == [kind |-> "Local"]
Remote(id, vx, vy, rw, rh, edge) ==
    [kind |-> "Remote", device_id |-> id, virtual_x |-> vx, virtual_y |-> vy,
     remote_w |-> rw, remote_h |-> rh, entered_edge |-> edge]

\* Faulty variant: the new entry is added and the edge's old entry is kept.
set_edge_device_add(map, edge, device_id, w, h) ==
    map \cup {[edge |-> edge, id |-> device_id, w |-> w, h |-> h]}

\* HashMap::insert on a map kept as a set of entries with key field `edge`.
set_edge_device(map, edge, device_id, w, h) ==
    {e \in map : e.edge # edge}
        \cup {[edge |-> edge, id |-> device_id, w |-> w, h |-> h]}

\* Faulty variant: the retain is missing, the edge bindings stay.
remove_device_keeps_edges(map, st, device_id) ==
    <<map,
      IF st.kind = "Remote" /\ st.device_id = device_id THEN Local ELSE st>>

\* Faulty variant: focus goes back to Local whichever device is removed.
remove_device_any_focus(map, st, device_id) ==
    <<{e \in map : e.id # device_id}, Local>>

\* FocusManager::remove_device: the new <<edge_devices, state>>.
remove_device(map, st, device_id) ==
    <<{e \in map : e.id # device_id},
      IF st.kind = "Remote" /\ st.device_id = device_id THEN Local ELSE st>>

opposite_edge(edge) ==
    CASE edge = "Left" -> "Right"
      [] edge = "Right" -> "Left"
      [] edge = "Top" -> "Bottom"
      [] edge = "Bottom" -> "Top"

None == "None"

\* Faulty variant: the vertical edges are tested after the horizontal ones,
\* and the thresholds are exclusive.
check_edge_rows_first(x, y, sw, sh) ==
    IF y < Px(EDGE_THRESHOLD) THEN "Top"
    ELSE IF y > Px(sh) - Px(EDGE_THRESHOLD) THEN "Bottom"
    ELSE IF x < Px(EDGE_THRESHOLD) THEN "Left"
    ELSE IF x > Px(sw) - Px(EDGE_THRESHOLD) THEN "Right"
    ELSE "None"

\* x, y are fixed-point; sw, sh whole pixels.
check_edge(x, y, sw, sh) ==
    IF x <= Px(EDGE_THRESHOLD) THEN "Left"
    ELSE IF x >= Px(sw) - Px(EDGE_THRESHOLD) THEN "Right"
    ELSE IF y <= Px(EDGE_THRESHOLD) THEN "Top"
    ELSE IF y >= Px(sh) - Px(EDGE_THRESHOLD) THEN "Bottom"
    ELSE None

entry_position(edge, x, y, sw, sh, rw, rh) ==
    CASE edge = "Right" -> <<0, (y * rh) \div sh>>
      [] edge = "Left" -> <<Px(rw), (y * rh) \div sh>>
      [] edge = "Bottom" -> <<(x * rw) \div sw, 0>>
      [] edge = "Top" -> <<(x * rw) \div sw, Px(rh)>>

check_virtual_edge(vx, vy, rw, rh, entered_edge) ==
    LET exit_edge == opposite_edge(entered_edge) IN
    CASE exit_edge = "Left" -> vx <= 0
      [] exit_edge = "Right" -> vx >= Px(rw)
      [] exit_edge = "Top" -> vy <= 0
      [] exit_edge = "Bottom" -> vy >= Px(rh)

\* f64::clamp
clamp(v, lo, hi) == IF v < lo THEN lo ELSE IF v > hi THEN hi ELSE v

\* HashMap::get on edge_devices / on the peer map: the entries under a key.
edge_get(map, edge) == {e \in map : e.edge = edge}
peers_get(map, id) == {p \in map : p.id = id}

\* HashMap::insert / HashMap::remove on the peer map.
peers_insert(map, id, c, w, h) ==
    {p \in map : p.id # id} \cup {[id |-> id, conn |-> c, w |-> w, h |-> h]}
peers_remove(map, id) == {p \in map : p.id # id}

\* ------------------------------------------------- handle_input_message
\* Faulty variant: the messages go to a registered peer other than the
\* focus device when there is one.
send_to_any(prs, device_id, msgs) ==
    IF prs = {} THEN <<>>
    ELSE LET others == {o \in prs : o.id # device_id}
             p == CHOOSE p \in prs : others # {} => p \in others IN
         [i \in 1..Len(msgs) |->
             [to |-> p.id, conn |-> p.conn, msg |-> msgs[i]]]

\* peer.tx.send(m) for the registry entry of device_id, if there is one.
send_to(prs, device_id, msgs) ==
    IF peers_get(prs, device_id) = {} THEN <<>>
    ELSE LET p == CHOOSE p \in peers_get(prs, device_id) : TRUE IN
         [i \in 1..Len(msgs) |->
             [to |-> device_id, conn |-> p.conn, msg |-> msgs[i]]]

Outcome(st, snt, la, ev) ==
    [state |-> st, sent |-> snt, acts |-> la, evts |-> ev]

\* Faulty variant: in Local a message that is no MouseMove goes to the device bound
\* to an edge.
route_local_other_fwd(msg, st, map, prs) ==
    IF map = {} THEN Outcome(st, <<>>, <<>>, <<>>)
    ELSE LET e == CHOOSE e \in map : TRUE
         IN  Outcome(st, send_to(prs, e.id, <<msg>>), <<>>, <<>>)

\* The FocusState::Local arm, any message but MouseMove: ignored.
route_local_other(msg, st, map, prs) == Outcome(st, <<>>, <<>>, <<>>)

\* The FocusState::Local arm.
route_local(msg, st, map, prs, cx, cy, sw, sh) ==
    IF msg.type # "MouseMove" THEN route_local_other(msg, st, map, prs)
    ELSE LET edge == check_edge(msg.x, msg.y, sw, sh) IN
         IF edge = None \/ edge_get(map, edge) = {}
         THEN Outcome(st, <<>>, <<>>, <<>>)
         ELSE LET e == CHOOSE e \in edge_get(map, edge) : TRUE
                  v == entry_position(edge, msg.x, msg.y, sw, sh, e.w, e.h)
              IN  Outcome(Remote(e.id, v[1], v[2], e.w, e.h, edge),
                          send_to(prs, e.id,
                                  <<EnterScreen(v[1], v[2]),
                                    MouseMove(v[1], v[2])>>),
                          <<MoveMouse(cx, cy)>>,
                          <<FocusChanged(e.id)>>)

\* Faulty variant: in Remote the motion is forwarded and the cursor is left
\* where it is.
route_remote_move_no_warp(msg, st, prs, cx, cy) ==
    LET dx == msg.x - Px(cx)
        dy == msg.y - Px(cy)
    IN  Outcome(Remote(st.device_id,
                       clamp(st.virtual_x + dx, 0, Px(st.remote_w)),
                       clamp(st.virtual_y + dy, 0, Px(st.remote_h)),
                       st.remote_w, st.remote_h, st.entered_edge),
                send_to(prs, st.device_id, <<MouseDelta(dx, dy)>>),
                <<>>, <<>>)

\* Faulty variant: the echo of the warp is not recognised.
dead_band_off(dx, dy) == FALSE

\* `dx == 0.0 && dy == 0.0`: the event is the echo of the warp to the centre.
dead_band(dx, dy) == dx = 0 /\ dy = 0

\* The FocusState::Remote arm, Message::MouseMove.
route_remote_move(msg, st, prs, cx, cy) ==
    LET dx == msg.x - Px(cx)
        dy == msg.y - Px(cy)
        new_vx == clamp(st.virtual_x + dx, 0, Px(st.remote_w))
        new_vy == clamp(st.virtual_y + dy, 0, Px(st.remote_h))
    IN  IF dead_band(dx, dy) THEN Outcome(st, <<>>, <<>>, <<>>)
        ELSE IF check_virtual_edge(new_vx, new_vy, st.remote_w, st.remote_h,
                                   st.entered_edge)
        THEN Outcome(Local,
                     send_to(prs, st.device_id,
                             <<LeaveScreen(opposite_edge(st.entered_edge),
                                           new_vx, new_vy)>>),
                     <<>>,
                     <<FocusChanged("local")>>)
        ELSE Outcome(Remote(st.device_id, new_vx, new_vy, st.remote_w,
                            st.remote_h, st.entered_edge),
                     send_to(prs, st.device_id, <<MouseDelta(dx, dy)>>),
                     <<MoveMouse(cx, cy)>>,
                     <<>>)

\* The FocusState::Remote arm.
route_remote(msg, st, prs, cx, cy) ==
    IF msg.type = "MouseMove" THEN route_remote_move(msg, st, prs, cx, cy)
    ELSE IF msg.type \in {"KeyEvent", "MouseButtonEvent", "MouseScroll",
                          "ClipboardText", "ClipboardImage"}
    THEN Outcome(st, send_to(prs, st.device_id, <<msg>>), <<>>, <<>>)
    ELSE Outcome(st, <<>>, <<>>, <<>>)

route(msg, st, map, prs, cx, cy, sw, sh) ==
    IF st.kind = "Local" THEN route_local(msg, st, map, prs, cx, cy, sw, sh)
    ELSE route_remote(msg, st, prs, cx, cy)

\* The messages of one step for connection c, in order.
msgs_for(snt, c) ==
    LET sel == SelectSeq(snt, LAMBDA s : s.conn = c)
    IN  [i \in 1..Len(sel) |-> sel[i].msg]

\* What the capture adapter and the clipboard bridge can put on input_rx
\* and clipboard_rx (capture.rs rdev_event_to_message, main.rs 103-113).
CX == ScreenW \div 2
CY == ScreenH \div 2
\* Cursor positions, in whole pixels: the centre, one pixel right of it, one
\* point on each edge, a corner, and two positions beyond the screen's
\* height (rdev reports positions of the whole desktop).
Points ==
    {<<CX, CY>>, <<CX + 1, CY>>,
     <<1, CY>>, <<ScreenW - 1, CY>>, <<CX, 1>>, <<CX, ScreenH - 1>>,
     <<1, 1>>, <<ScreenW - 1, 0 - 1>>, <<1, ScreenH + 1>>}
NonMoveMsgs ==
    {KeyEvent("KeyA", "Press"), MouseButtonEvent("Left", "Press"),
     MouseScroll(0, 1), ClipboardText("hi"), ClipboardImage(1, 1, <<0>>)}
InputMsgs == {MouseMove(Px(p[1]), Px(p[2])) : p \in Points} \cup NonMoveMsgs
\* The inputs of the sessions specification: the centre, a point on the
\* Right edge and a point on the Left edge.
SessionInputs ==
    {MouseMove(Px(CX), Px(CY)), MouseMove(Px(ScreenW - 1), Px(CY)),
     MouseMove(Px(1), Px(CY))}

NoConn == "none"

\* What a step that handles no message records as its input.
NoMsg == [type |-> "None"]
Reason(why) == [type |-> "Reason", why |-> why]
Result(ok) == [type |-> "Result", ok |-> ok]
\* What ended a loop of handle_client, and what handle_client returned.
Return(why, res) == [type |-> "Return", why |-> why, result |-> res]

Step(op, c, msg) == [op |-> op, conn |-> c, msg |-> msg, pre |-> state]

handle_input_message(msg) ==
    /\ router = "running"
    /\ \E r \in {route(msg, state, edge_devices, peers, center_x, center_y,
                      screen_w, screen_h)} :
           /\ \A c \in Conns :
                  msgs_for(r.sent, c) # <<>> => Len(queue[c]) <= MaxBacklog
           /\ state' = r.state
           /\ queue' = [c \in Conns |-> queue[c] \o msgs_for(r.sent, c)]
           /\ sent' = r.sent
           /\ acts' = r.acts
           /\ evts' = r.evts
    /\ last' = Step("input", NoConn, msg)
    /\ wrote' = <<>>
    /\ UNCHANGED <<config, edge_devices, peers, pc, hello, cancelled, router,
                   listener>>
    /\ UNCHANGED <<cvars, codec, watcher, boot, pending>>

\* -------------------------------------------------------- handle_client
\* A handler step enqueues nothing for peers and queues no LocalAction.
HandlerStep(op, c, msg, ev, wr) ==
    /\ last' = Step(op, c, msg)
    /\ sent' = <<>>
    /\ acts' = <<>>
    /\ evts' = ev
    /\ wrote' = wr
    /\ UNCHANGED <<cvars, xvars>>

\* Frames a client may send besides Hello.
ClientFrames == {Pong(1), ClipboardText("c")}
\* The same with the frames the Ready loop treats apart.
RoleFrames == ClientFrames \cup {Ping(2), Bye("a")}

\* Faulty variant: the reply carries a sequence number of its own.
pong_reply_own(seq) == Pong(1)

\* Message::Ping(seq) => framed.send(Message::Pong(seq)), on both roles.
pong_reply(seq) == Pong(seq)

\* Faulty variant: the newest message is taken first.
outgoing_recv_last(q) == <<q[Len(q)], SubSeq(q, 1, Len(q) - 1)>>

\* outgoing_rx.recv(): the oldest message and the rest of the channel.
outgoing_recv(q) == <<Head(q), Tail(q)>>

\* Faulty variant: the result of the write is not looked at.
welcome_next_unchecked(ok) == "reg_peers"

\* `framed.send(Welcome).await?`: on an error handle_client returns.
welcome_next(ok) == IF ok THEN "reg_peers" ELSE "aborted"

\* Faulty variant: the `?` returns from handle_client.
write_next_returns(ok) == IF ok THEN "ready" ELSE "aborted"

\* `framed.send(..).await?` inside the Ready loop's async block: an error
\* ends the block, and the cleanup follows.
write_next(ok) == IF ok THEN "ready" ELSE "rm_peers"

\* Server::run, the accept loop: listener.accept() and tokio::spawn.
Accept(c) ==
    /\ listener = "accepting"
    /\ pc[c] = "idle"
    /\ \E i \in 1..Len(AcceptOrder) :
          /\ AcceptOrder[i] = c
          /\ \A j \in 1..(i - 1) : pc[AcceptOrder[j]] # "idle"
    /\ pc' = [pc EXCEPT ![c] = "greeting"]
    /\ HandlerStep("accept", c, NoMsg, <<>>, <<>>)
    /\ UNCHANGED <<config, state, edge_devices, peers, queue, hello,
                   cancelled, router, listener>>

\* Waiting for Hello: a Hello ends the loop.
GreetingHello(c, h) ==
    /\ pc[c] = "greeting"
    /\ pc' = [pc EXCEPT ![c] = "welcome"]
    /\ hello' = [hello EXCEPT ![c] = [id |-> h[1], w |-> h[2], h |-> h[3]]]
    /\ HandlerStep("hello", c, Hello(h[1], h[2], h[3]), <<>>, <<>>)
    /\ UNCHANGED <<config, state, edge_devices, peers, queue, cancelled,
                   router, listener>>

\* Waiting for Hello: any other frame is logged and the loop goes on.
GreetingOther(c, frame) ==
    /\ pc[c] = "greeting"
    /\ HandlerStep("greeting_other", c, frame, <<>>, <<>>)
    /\ UNCHANGED <<config, state, edge_devices, peers, queue, pc, hello,
                   cancelled, router, listener>>

\* The greeting loop's select!: cancellation and the end of the stream
\* return Ok(()), a receive error returns Err.
greeting_result(why) == IF why = "error" THEN "err" ELSE "ok"

\* Waiting for Hello: cancellation, a receive error or the end of the
\* stream return from handle_client.
GreetingAbort(c, why) ==
    /\ pc[c] = "greeting"
    /\ why = "cancel" => cancelled
    /\ pc' = [pc EXCEPT ![c] = "aborted"]
    /\ HandlerStep("greeting_abort", c, Return(why, greeting_result(why)),
                   <<>>, <<>>)
    /\ UNCHANGED <<config, state, edge_devices, peers, queue, hello,
                   cancelled, router, listener>>

\* framed.send(Welcome): on success DeviceConnected is emitted, on failure
\* the `?` returns from handle_client.
SendWelcome(c, ok) ==
    /\ pc[c] = "welcome"
    /\ pc' = [pc EXCEPT ![c] = welcome_next(ok)]
    /\ HandlerStep("welcome", c, Result(ok),
                   IF ok THEN <<DeviceConnected(hello[c].id)>> ELSE <<>>,
                   IF ok THEN <<[conn |-> c, frame |-> Welcome]>> ELSE <<>>)
    /\ UNCHANGED <<config, state, edge_devices, peers, queue, hello,
                   cancelled, router, listener>>

\* peers.write().await.insert(device_id, PeerInfo { tx, .. })
RegisterPeer(c) ==
    /\ pc[c] = "reg_peers"
    /\ peers' = peers_insert(peers, hello[c].id, c, hello[c].w, hello[c].h)
    /\ pc' = [pc EXCEPT ![c] = "reg_edge"]
    /\ HandlerStep("register_peer", c, NoMsg, <<>>, <<>>)
    /\ UNCHANGED <<config, state, edge_devices, queue, hello, cancelled,
                   router, listener>>

\* focus.lock().await.set_edge_device(client_direction, device_id, w, h)
RegisterEdge(c) ==
    /\ pc[c] = "reg_edge"
    /\ edge_devices' = set_edge_device(edge_devices, client_direction,
                                       hello[c].id, hello[c].w, hello[c].h)
    /\ pc' = [pc EXCEPT ![c] = "ready"]
    /\ HandlerStep("register_edge", c, NoMsg, <<>>, <<>>)
    /\ UNCHANGED <<config, state, peers, queue, hello, cancelled, router,
                   listener>>

\* Ready loop, inbound Ping: Pong is written in line; a write error leaves
\* the loop.
ReadyPing(c, seq, ok) ==
    /\ pc[c] = "ready"
    /\ pc' = [pc EXCEPT ![c] = write_next(ok)]
    /\ HandlerStep("ping", c, Ping(seq), <<>>,
                   IF ok THEN <<[conn |-> c, frame |-> pong_reply(seq)]>>
                   ELSE <<>>)
    /\ UNCHANGED <<config, state, edge_devices, peers, queue, hello,
                   cancelled, router, listener>>

\* Ready loop, any other inbound frame than Ping and Bye: logged.
ReadyOther(c, frame) ==
    /\ pc[c] = "ready"
    /\ frame.type \notin {"Ping", "Bye"}
    /\ HandlerStep("ready_other", c, frame, <<>>, <<>>)
    /\ UNCHANGED <<config, state, edge_devices, peers, queue, pc, hello,
                   cancelled, router, listener>>

\* Ready loop: cancellation, Bye, a receive error or the end of the stream
\* break out of the loop.
ReadyExit(c, why) ==
    /\ pc[c] = "ready"
    /\ why = "cancel" => cancelled
    /\ pc' = [pc EXCEPT ![c] = "rm_peers"]
    /\ HandlerStep("ready_exit", c, Reason(why), <<>>, <<>>)
    /\ UNCHANGED <<config, state, edge_devices, peers, queue, hello,
                   cancelled, router, listener>>

\* Ready loop, outgoing_rx.recv(): the message is written as a frame; a
\* write error leaves the loop.
ReadyOutgoing(c, ok) ==
    /\ pc[c] = "ready"
    /\ queue[c] # <<>>
    /\ queue' = [queue EXCEPT ![c] = outgoing_recv(queue[c])[2]]
    /\ pc' = [pc EXCEPT ![c] = write_next(ok)]
    /\ HandlerStep("outgoing", c, outgoing_recv(queue[c])[1], <<>>,
                   IF ok
                   THEN <<[conn |-> c, frame |-> outgoing_recv(queue[c])[1]]>>
                   ELSE <<>>)
    /\ UNCHANGED <<config, state, edge_devices, peers, hello, cancelled,
                   router, listener>>

\* A send that does not complete at once: framed.send(..).await suspends
\* while the socket takes no more bytes, inside the arm's body, where the
\* select! and its cancelled arm are no longer polled.
SuspendStep(op, c, msg, frame) ==
    /\ pc[c] = "ready"
    /\ pc' = [pc EXCEPT ![c] = "writing"]
    /\ pending' = [pending EXCEPT ![c] = frame]
    /\ last' = Step(op, c, msg)
    /\ sent' = <<>>
    /\ acts' = <<>>
    /\ evts' = <<>>
    /\ wrote' = <<>>
    /\ UNCHANGED <<cvars, codec, watcher, boot, yvars>>

\* Ready loop, inbound Ping, the Pong's send suspends.
ReadyPingSuspends(c, seq) ==
    /\ SuspendStep("ping_suspended", c, Ping(seq), pong_reply(seq))
    /\ UNCHANGED <<config, state, edge_devices, peers, queue, hello,
                   cancelled, router, listener>>

\* Ready loop, outgoing_rx.recv(), the frame's send suspends.
ReadyOutgoingSuspends(c) ==
    /\ queue[c] # <<>>
    /\ queue' = [queue EXCEPT ![c] = outgoing_recv(queue[c])[2]]
    /\ SuspendStep("outgoing_suspended", c, outgoing_recv(queue[c])[1],
                   outgoing_recv(queue[c])[1])
    /\ UNCHANGED <<config, state, edge_devices, peers, hello, cancelled,
                   router, listener>>

\* The socket takes the rest of the frame, or fails: the suspended send
\* returns, and the loop goes on or is left by `?`.
SendResumes(c, ok) ==
    /\ pc[c] = "writing"
    /\ pc' = [pc EXCEPT ![c] = write_next(ok)]
    /\ pending' = [pending EXCEPT ![c] = NoMsg]
    /\ last' = Step("send_resumed", c, pending[c])
    /\ sent' = <<>>
    /\ acts' = <<>>
    /\ evts' = <<>>
    /\ wrote' = IF ok THEN <<[conn |-> c, frame |-> pending[c]]>> ELSE <<>>
    /\ UNCHANGED <<config, state, edge_devices, peers, queue, hello,
                   cancelled, router, listener>>
    /\ UNCHANGED <<cvars, codec, watcher, boot, yvars>>

\* Cleanup, first statement: peers.write().await.remove(&device_id)
RemovePeer(c) ==
    /\ pc[c] = "rm_peers"
    /\ peers' = peers_remove(peers, hello[c].id)
    /\ pc' = [pc EXCEPT ![c] = "rm_focus"]
    /\ HandlerStep("remove_peer", c, NoMsg, <<>>, <<>>)
    /\ UNCHANGED <<config, state, edge_devices, queue, hello, cancelled,
                   router, listener>>

\* Cleanup, the rest: fm.remove_device(&device_id), DeviceDisconnected, and
\* the return, which drops outgoing_rx.
RemoveDevice(c) ==
    /\ pc[c] = "rm_focus"
    /\ LET r == remove_device(edge_devices, state, hello[c].id)
       IN  /\ edge_devices' = r[1]
           /\ state' = r[2]
    /\ queue' = [queue EXCEPT ![c] = <<>>]
    /\ pc' = [pc EXCEPT ![c] = "done"]
    /\ HandlerStep("remove_device", c, NoMsg,
                   <<DeviceDisconnected(hello[c].id)>>, <<>>)
    /\ UNCHANGED <<config, peers, hello, cancelled, router, listener>>

\* ----------------------------------------------------------- Server::run
NoStep(op) ==
    /\ last' = Step(op, NoConn, NoMsg)
    /\ sent' = <<>>
    /\ acts' = <<>>
    /\ evts' = <<>>
    /\ wrote' = <<>>
    /\ UNCHANGED <<cvars, xvars>>

\* cancel.cancel() (main.rs, the ctrl-c task)
Cancel ==
    /\ ~cancelled
    /\ cancelled' = TRUE
    /\ NoStep("cancel")
    /\ UNCHANGED <<config, state, edge_devices, peers, queue, pc, hello,
                   router, listener>>

\* The input task's select! takes the cancelled arm.
RouterStop ==
    /\ cancelled
    /\ router = "running"
    /\ router' = "stopped"
    /\ NoStep("router_stop")
    /\ UNCHANGED <<config, state, edge_devices, peers, queue, pc, hello,
                   cancelled, listener>>

\* The accept loop's select! takes the cancelled arm.
AcceptStop ==
    /\ cancelled
    /\ listener = "accepting"
    /\ listener' = "closed"
    /\ NoStep("accept_stop")
    /\ UNCHANGED <<config, state, edge_devices, peers, queue, pc, hello,
                   cancelled, router>>

\* ------------------------------------------------------- Client::connect
\* ClientEvent::Connected / Disconnected (the Log events are left out, as
\* are the server's).
Connected == [type |-> "Connected"]
Disconnected == [type |-> "Disconnected"]

\* The device_id argument of Client::connect (main.rs passes the hostname).
ClientDeviceId == "cli"
\* What the server's end of the connection may deliver.
ServerFrames ==
    {Welcome, Ping(1), Ping(2), Pong(1), Bye("srv"), MouseDelta(1, 0),
     ClipboardText("hi")}

ClientStep(op, msg, wr, ev, fwd) ==
    /\ clast' = [op |-> op, msg |-> msg]
    /\ cwrote' = wr
    /\ cevts' = ev
    /\ cfwd' = fwd
    /\ UNCHANGED <<svars, cclip, xvars>>

\* TcpStream::connect(&self.addr).await?
ClientConnect(ok) ==
    /\ cpc = "start"
    /\ cpc' = IF ok THEN "hello" ELSE "closed"
    /\ cresult' = IF ok THEN cresult ELSE "err"
    /\ ClientStep("connect", Result(ok), <<>>, <<>>, <<>>)
    /\ UNCHANGED ccancelled

\* framed.send(Message::Hello { .. }).await?
ClientSendHello(ok) ==
    /\ cpc = "hello"
    /\ cpc' = IF ok THEN "wait_welcome" ELSE "closed"
    /\ cresult' = IF ok THEN cresult ELSE "err"
    /\ ClientStep("send_hello", Result(ok),
                  IF ok THEN <<Hello(ClientDeviceId, ScreenW, ScreenH)>>
                  ELSE <<>>,
                  <<>>, <<>>)
    /\ UNCHANGED ccancelled

\* Waiting for Welcome, a frame arrives: Welcome ends the loop and Connected
\* is emitted; any other frame is logged.
ClientWaitFrame(frame) ==
    /\ cpc = "wait_welcome"
    /\ cpc' = IF frame.type = "Welcome" THEN "ready" ELSE cpc
    /\ ClientStep("wait_frame", frame, <<>>,
                  IF frame.type = "Welcome" THEN <<Connected>> ELSE <<>>,
                  <<>>)
    /\ UNCHANGED <<ccancelled, cresult>>

\* Faulty variant: leaving the wait for Welcome goes through the code after
\* the receive loop.
ClientWaitAbortAnnounced(why) ==
    /\ cpc = "wait_welcome"
    /\ why = "cancel" => ccancelled
    /\ cpc' = "closed"
    /\ cresult' = IF why = "cancel" THEN "ok" ELSE "err"
    /\ ClientStep("wait_abort", Reason(why), <<>>, <<Disconnected>>, <<>>)
    /\ UNCHANGED ccancelled

\* Waiting for Welcome: cancellation returns Ok(()), a receive error and
\* the end of the stream return Err.
ClientWaitAbort(why) ==
    /\ cpc = "wait_welcome"
    /\ why = "cancel" => ccancelled
    /\ cpc' = "closed"
    /\ cresult' = IF why = "cancel" THEN "ok" ELSE "err"
    /\ ClientStep("wait_abort", Reason(why), <<>>, <<>>, <<>>)
    /\ UNCHANGED ccancelled

\* The receive loop, a frame arrives: Ping is answered (the result of the
\* write is dropped), Pong is consumed, anything else goes to message_tx.
ClientReadyFrame(frame, ok) ==
    /\ cpc = "ready"
    /\ ClientStep("ready_frame", frame,
                  IF frame.type = "Ping" /\ ok
                  THEN <<pong_reply(frame.seq)>> ELSE <<>>,
                  <<>>,
                  IF frame.type \in {"Ping", "Pong"} THEN <<>>
                  ELSE <<frame>>)
    /\ UNCHANGED <<cpc, ccancelled, cresult>>

\* The receive loop ends: on cancellation Bye is sent (the result of the
\* write is dropped); a receive error and the end of the stream just break.
\* Disconnected is emitted and Ok(()) returned.
ClientReadyExit(why, ok) ==
    /\ cpc = "ready"
    /\ why = "cancel" => ccancelled
    /\ cpc' = "closed"
    /\ cresult' = "ok"
    /\ ClientStep("ready_exit", Reason(why),
                  IF why = "cancel" /\ ok THEN <<Bye(ClientDeviceId)>>
                  ELSE <<>>,
                  <<Disconnected>>, <<>>)
    /\ UNCHANGED ccancelled

\* cancel.cancel() in the client process (main.rs, the ctrl-c task).
ClientCancel ==
    /\ ~ccancelled
    /\ cpc # "closed"
    /\ ccancelled' = TRUE
    /\ ClientStep("cancel", NoMsg, <<>>, <<>>, <<>>)
    /\ UNCHANGED <<cpc, cresult>>

Client ==
    \/ \E ok \in BOOLEAN : ClientConnect(ok)
    \/ \E ok \in BOOLEAN : ClientSendHello(ok)
    \/ \E frame \in ServerFrames : ClientWaitFrame(frame)
    \/ \E why \in {"cancel", "error", "closed"} : ClientWaitAbort(why)
    \/ \E frame \in ServerFrames, ok \in BOOLEAN : ClientReadyFrame(frame, ok)
    \/ \E why \in {"cancel", "error", "closed"}, ok \in BOOLEAN :
          ClientReadyExit(why, ok)
    \/ ClientCancel

\* The user of the dialer's machine copies a text: its clipboard changes.
\* No task of the client process takes part in the step.
ClipTexts == {"", "x", "y"}
PeerClipboardChange(text) ==
    /\ text # cclip
    /\ cclip' = text
    /\ clast' = [op |-> "clipboard", msg |-> ClipboardText(text)]
    /\ cwrote' = <<>>
    /\ cevts' = <<>>
    /\ cfwd' = <<>>
    /\ UNCHANGED <<cpc, ccancelled, cresult, svars, xvars>>

\* Before Client::connect is called.
ClientInit ==
    /\ cpc = "start"
    /\ ccancelled = FALSE
    /\ cresult = "none"
    /\ clast = [op |-> "init", msg |-> NoMsg]
    /\ cwrote = <<>>
    /\ cevts = <<>>
    /\ cfwd = <<>>
    /\ cclip = ""

\* ---------------------------------------------------------- MessageCodec
\* A usize or u32 is kept as <<n \div 2^16, n % 2^16>>, which is exact for
\* every length the code can meet.
usize(n) == <<n \div 65536, n % 65536>>
add(a, b) ==
    <<a[1] + b[1] + ((a[2] + b[2]) \div 65536), (a[2] + b[2]) % 65536>>
gt(a, b) == a[1] > b[1] \/ (a[1] = b[1] /\ a[2] > b[2])
\* `n as u32`
as_u32(n) == <<n[1] % 65536, n[2]>>
\* `n as usize`, for a u32 below 2^31
as_usize(n) == n[1] * 65536 + n[2]

MAX_FRAME_SIZE == usize(16 * 1024 * 1024)

\* A byte buffer: its bytes, then `pad` further bytes whose values play no
\* part (the pixels of a large image).
Buf(bytes) == [bytes |-> bytes, pad |-> usize(0)]
Blob(n) == [bytes |-> <<>>, pad |-> n]
buf_len(b) == add(usize(Len(b.bytes)), b.pad)
extend(a, b) == [bytes |-> a.bytes \o b.bytes, pad |-> add(a.pad, b.pad)]

\* u32::from_be_bytes
from_be_bytes(b) == <<b[1] * 256 + b[2], b[3] * 256 + b[4]>>
\* Faulty variant: the prefix is written little-endian.
put_u32_le(n) == <<n[2] % 256, n[2] \div 256, n[1] % 256, n[1] \div 256>>
\* BufMut::put_u32 (big-endian)
put_u32(n) == <<n[1] \div 256, n[1] % 256, n[2] \div 256, n[2] % 256>>

\* Variant indices, in declaration order.
MessageIndex ==
    [Hello |-> 0, Welcome |-> 1, Bye |-> 2, MouseMove |-> 3,
     MouseButtonEvent |-> 4, MouseScroll |-> 5, KeyEvent |-> 6,
     EnterScreen |-> 7, LeaveScreen |-> 8, ClipboardText |-> 9,
     ClipboardImage |-> 10, Ping |-> 11, Pong |-> 12]
KeyCodes == <<"KeyA", "KeyB", "KeyC">>
MouseButtons == <<"Left", "Right", "Middle", "Back", "Forward">>
Actions == <<"Press", "Release">>
\* bincode::serialize(&item), for the messages of the codec model: text is
\* a sequence of UTF-8 bytes, an f64 its eight little-endian bytes, an
\* image's data a buffer. bincode 1.x with its default options writes
\* integers fixed-width little-endian, an enum as its u32 variant index, a
\* String or Vec as its u64 length and its bytes.
serialize(item) ==
    LET le_u32(n) ==
            <<n % 256, (n \div 256) % 256, (n \div 65536) % 256,
              n \div 16777216>>
        le_u64(n) == le_u32(n) \o <<0, 0, 0, 0>>
        le_len(n) ==
            <<n[2] % 256, n[2] \div 256, n[1] % 256, (n[1] \div 256) % 256,
              (n[1] \div 65536) % 256, n[1] \div 16777216, 0, 0>>
        index_of(names, name) ==
            (CHOOSE i \in 1..Len(names) : names[i] = name) - 1
        tag == le_u32(MessageIndex[item.type])
        str(t) == le_len(usize(Len(t))) \o t
    IN  CASE item.type = "Bye" -> Buf(tag \o str(item.device_id))
          [] item.type = "MouseMove" -> Buf(tag \o item.x \o item.y)
          [] item.type = "MouseButtonEvent" ->
                Buf(tag \o le_u32(index_of(MouseButtons, item.button))
                        \o le_u32(index_of(Actions, item.action)))
          [] item.type = "KeyEvent" ->
                Buf(tag \o le_u32(index_of(KeyCodes, item.key))
                        \o le_u32(index_of(Actions, item.action)))
          [] item.type = "ClipboardText" -> Buf(tag \o str(item.text))
          [] item.type = "ClipboardImage" ->
                extend(Buf(tag \o le_u32(item.width) \o le_u32(item.height)
                               \o le_len(buf_len(item.data))),
                       item.data)
          [] item.type \in {"Ping", "Pong"} -> Buf(tag \o le_u64(item.seq))

drop(p, n) == SubSeq(p, n + 1, Len(p))

\* bincode::deserialize(&payload): bytes after the value are ignored. A
\* read is a cursor [ok, v, rest] over the payload's bytes; an integer of
\* the model is below 2^31, a text is ASCII. The variants the codec model
\* leaves out are not read.
deserialize(payload) ==
    LET Fail == [ok |-> FALSE, v |-> 0, rest |-> <<>>]
        read_int(p, width) ==
            IF Len(p) < width THEN Fail
            ELSE IF p[4] >= 128 \/ \E i \in 5..width : p[i] # 0 THEN Fail
            ELSE [ok |-> TRUE,
                  v |-> p[1] + 256 * p[2] + 65536 * p[3] + 16777216 * p[4],
                  rest |-> drop(p, width)]
        read_f64(p) ==
            IF Len(p) < 8 THEN Fail
            ELSE [ok |-> TRUE, v |-> SubSeq(p, 1, 8), rest |-> drop(p, 8)]
        read_bytes(p) ==
            LET n == read_int(p, 8)
            IN  IF ~n.ok \/ Len(n.rest) < n.v THEN Fail
                ELSE [ok |-> TRUE, v |-> SubSeq(n.rest, 1, n.v),
                      rest |-> drop(n.rest, n.v)]
        read_string(p) ==
            LET t == read_bytes(p)
            IN  IF t.ok /\ \E i \in 1..Len(t.v) : t.v[i] >= 128 THEN Fail
                ELSE t
        read_enum(p, names) ==
            LET i == read_int(p, 4)
            IN  IF ~i.ok \/ i.v >= Len(names) THEN Fail
                ELSE [ok |-> TRUE, v |-> names[i.v + 1], rest |-> i.rest]
        tag == read_int(payload, 4)
        none == [ok |-> FALSE, msg |-> NoMsg]
        some(m) == [ok |-> TRUE, msg |-> m]
    IN  IF ~tag.ok THEN none
        ELSE CASE tag.v = MessageIndex.Bye ->
                    LET id == read_string(tag.rest)
                    IN  IF id.ok THEN some(Bye(id.v)) ELSE none
               [] tag.v = MessageIndex.MouseMove ->
                    LET x == read_f64(tag.rest)
                        y == read_f64(x.rest)
                    IN  IF x.ok /\ y.ok THEN some(MouseMove(x.v, y.v))
                        ELSE none
               [] tag.v = MessageIndex.MouseButtonEvent ->
                    LET b == read_enum(tag.rest, MouseButtons)
                        a == read_enum(b.rest, Actions)
                    IN  IF b.ok /\ a.ok THEN some(MouseButtonEvent(b.v, a.v))
                        ELSE none
               [] tag.v = MessageIndex.KeyEvent ->
                    LET k == read_enum(tag.rest, KeyCodes)
                        a == read_enum(k.rest, Actions)
                    IN  IF k.ok /\ a.ok THEN some(KeyEvent(k.v, a.v))
                        ELSE none
               [] tag.v = MessageIndex.ClipboardText ->
                    LET t == read_string(tag.rest)
                    IN  IF t.ok THEN some(ClipboardText(t.v)) ELSE none
               [] tag.v = MessageIndex.ClipboardImage ->
                    LET w == read_int(tag.rest, 4)
                        h == read_int(w.rest, 4)
                        d == read_bytes(h.rest)
                    IN  IF w.ok /\ h.ok /\ d.ok
                        THEN some(ClipboardImage(w.v, h.v, Buf(d.v)))
                        ELSE none
               [] tag.v = MessageIndex.Ping ->
                    LET q == read_int(tag.rest, 8)
                    IN  IF q.ok THEN some(Ping(q.v)) ELSE none
               [] tag.v = MessageIndex.Pong ->
                    LET q == read_int(tag.rest, 8)
                    IN  IF q.ok THEN some(Pong(q.v)) ELSE none
               [] OTHER -> none

\* Faulty variant: a length equal to the limit is refused too.
too_large_inclusive(len) == ~gt(MAX_FRAME_SIZE, len)
\* `len > MAX_FRAME_SIZE`
too_large(len) == gt(len, MAX_FRAME_SIZE)

\* Faulty variant: the length prefix is consumed before the frame is whole.
need_more_advances(src) == drop(src, 4)
\* The incomplete-frame return: src.reserve(..) only.
need_more(src) == src

\* Decoder::decode(&mut self, src): what it returns and what it leaves in
\* src.
decode(src) ==
    IF Len(src) < 4 THEN [res |-> "none", msg |-> NoMsg, src |-> src]
    ELSE LET len == from_be_bytes(SubSeq(src, 1, 4))
         IN  IF too_large(len)
             THEN [res |-> "too_large", msg |-> NoMsg, src |-> src]
             ELSE IF Len(src) < 4 + as_usize(len)
             THEN [res |-> "none", msg |-> NoMsg, src |-> need_more(src)]
             ELSE LET payload == SubSeq(src, 5, 4 + as_usize(len))
                      d == deserialize(payload)
                  IN  [res |-> IF d.ok THEN "some" ELSE "malformed",
                       msg |-> d.msg,
                       src |-> drop(src, 4 + as_usize(len))]

\* Encoder::encode(&mut self, item, dst)
encode(item, dst) ==
    LET payload == serialize(item)
        len == as_u32(buf_len(payload))
    IN  IF too_large(len) THEN [ok |-> FALSE, len |-> len, dst |-> dst]
        ELSE [ok |-> TRUE, len |-> len,
              dst |-> extend(extend(dst, Buf(put_u32(len))), payload)]

\* The codec model: messages are encoded one after another into dst, dst
\* travels as the byte stream, and the reading side appends what arrives to
\* src and calls decode until it asks for more (Framed's read loop).
MaxFrames == 2
CodecItems ==
    {Ping(1), Pong(258), Bye(<<97>>), ClipboardText(<<104, 105>>),
     ClipboardText(<<>>), KeyEvent("KeyB", "Release"),
     MouseButtonEvent("Right", "Press"),
     MouseMove(<<0, 0, 0, 0, 0, 0, 240, 63>>, <<0, 0, 0, 0, 0, 0, 224, 191>>),
     ClipboardImage(1, 2, Buf(<<7, 8>>))}
\* Images whose payload (20 bytes and the data) lies around the frame limit
\* and around 2^32.
LargeItems ==
    {ClipboardImage(1, 1, Blob(n)) :
        n \in {<<255, 65516>>, <<255, 65517>>, <<65535, 65535>>,
               <<65536, 0>>, <<65791, 65516>>, <<65791, 65517>>}}
\* Byte streams that no encoder of this codec produced.
RawBuffers ==
    {<<1, 0, 0, 0>>, <<1, 0, 0, 0, 5>>, <<1, 0, 0, 1>>, <<1, 0, 0, 1, 9, 9>>,
     <<255, 255, 255, 255, 1>>, <<0, 0, 0, 2, 11, 0>>,
     <<0, 0, 0, 4, 99, 0, 0, 0>>}
CodecStart(items, raw, mode) ==
    [op |-> "start", mode |-> mode, items |-> items, item |-> NoMsg,
     done |-> <<>>, dst |-> Buf(raw), dst_pre |-> Buf(raw), enc |-> "none",
     len |-> usize(0), fed |-> 0, src |-> <<>>, pre |-> <<>>, out |-> <<>>,
     res |-> "none"]
CodecIdle == CodecStart(<<>>, <<>>, "whole")

\* A sender's framed.send(item): encode appends to the write buffer.
CodecEncode ==
    /\ codec.items # <<>>
    /\ codec.fed = 0
    /\ \E r \in {encode(Head(codec.items), codec.dst)} :
          codec' = [codec EXCEPT
                       !.op = "encode",
                       !.item = Head(codec.items),
                       !.items = Tail(codec.items),
                       !.done = IF r.ok THEN Append(@, Head(codec.items))
                                ELSE @,
                       !.dst_pre = codec.dst,
                       !.dst = r.dst,
                       !.len = r.len,
                       !.enc = IF r.ok THEN "ok" ELSE "too_large"]
    /\ UNCHANGED <<svars, cvars, watcher, boot, pending, yvars>>

\* The reader's socket delivers the next bytes of the stream: one byte, or
\* all that is left.
CodecFeed ==
    /\ codec.items = <<>>
    /\ codec.dst.pad = usize(0)
    /\ codec.res = "none"
    /\ codec.fed < Len(codec.dst.bytes)
    /\ \E k \in {IF codec.mode = "bytes" THEN 1
                 ELSE Len(codec.dst.bytes) - codec.fed} :
          codec' = [codec EXCEPT
                       !.op = "feed",
                       !.src = @ \o SubSeq(codec.dst.bytes, codec.fed + 1,
                                           codec.fed + k),
                       !.fed = @ + k,
                       !.res = "pending"]
    /\ UNCHANGED <<svars, cvars, watcher, boot, pending, yvars>>

\* The reader calls decode on its buffer.
CodecDecode ==
    /\ codec.res \in {"pending", "some"}
    /\ \E r \in {decode(codec.src)} :
          codec' = [codec EXCEPT
                       !.op = "decode",
                       !.pre = codec.src,
                       !.src = r.src,
                       !.res = r.res,
                       !.out = IF r.res = "some" THEN Append(@, r.msg)
                               ELSE @]
    /\ UNCHANGED <<svars, cvars, watcher, boot, pending, yvars>>

NoHello == [id |-> None, w |-> 0, h |-> 0]

\* ------------------------------------------------------ ClipboardWatcher
\* What clipboard.get_text() returns.
ReadErr == [ok |-> FALSE, text |-> ""]
Reads == {[ok |-> TRUE, text |-> t] : t \in {"", "a", "b"}} \cup {ReadErr}
Text(text) == [type |-> "Text", text |-> text]

\* thread: the spawn_blocking thread; last_text: its local; op: the step
\* just taken; read: what the poll just made read; prev: the text of the
\* successful read before that one; emitted: what the step passed to
\* tx.send; rx: the channel's receiving end, held by the bridge task.
WatcherIdle ==
    [thread |-> "none", last_text |-> "", op |-> "none", read |-> ReadErr,
     prev |-> "", emitted |-> <<>>, polls |-> "none", rx |-> "open"]

\* Clipboard::new().expect(..): the thread panics when there is no
\* clipboard to open.
WatcherOpen(ok) ==
    /\ watcher.thread = "spawned"
    /\ watcher' = [watcher EXCEPT
                      !.thread = IF ok THEN "polling" ELSE "panicked",
                      !.op = "open",
                      !.emitted = <<>>]
    /\ UNCHANGED <<svars, cvars, codec, boot, pending, yvars>>

\* What one pass of the loop sends.
poll_emits(read, last_text) ==
    IF read.ok /\ read.text # last_text /\ read.text # ""
    THEN <<Text(read.text)>>
    ELSE <<>>

\* One pass of the loop: get_text, the match, the sleep. The result of
\* tx.send is dropped, so a closed channel changes nothing.
WatcherPoll(read) ==
    /\ watcher.thread = "polling"
    /\ watcher' = [watcher EXCEPT
                      !.op = "poll",
                      !.read = read,
                      !.prev = IF watcher.polls = "some" /\ watcher.read.ok
                               THEN watcher.read.text ELSE @,
                      !.polls = "some",
                      !.emitted = poll_emits(read, watcher.last_text),
                      !.last_text =
                          IF poll_emits(read, watcher.last_text) # <<>>
                          THEN read.text ELSE @]
    /\ UNCHANGED <<svars, cvars, codec, boot, pending, yvars>>

\* The bridge task of main (clip_rx to clip_msg_tx) takes its cancelled arm
\* and drops clip_rx.
BridgeStop ==
    /\ cancelled
    /\ watcher.rx = "open"
    /\ boot.phase \notin {"args", "parsed"}
    /\ watcher' = [watcher EXCEPT !.rx = "closed", !.op = "bridge_stop",
                                  !.emitted = <<>>]
    /\ UNCHANGED <<svars, cvars, codec, boot, pending, yvars>>

\* ------------------------------------------------------------- main
\* The --client-direction argument, character by character.
DirectionArgs ==
    {<<"l", "e", "f", "t">>, <<"L", "e", "f", "t">>,
     <<"r", "i", "g", "h", "t">>, <<"T", "O", "P">>,
     <<"b", "o", "t", "t", "o", "m">>, <<"u", "p">>, <<>>,
     <<"l", "e", "f", "t", " ">>}

\* str::to_lowercase, on ASCII
to_lowercase(s) ==
    LET upper == <<"A", "B", "C", "D", "E", "F", "G", "H", "I", "J", "K",
                   "L", "M", "N", "O", "P", "Q", "R", "S", "T", "U", "V",
                   "W", "X", "Y", "Z">>
        lower == <<"a", "b", "c", "d", "e", "f", "g", "h", "i", "j", "k",
                   "l", "m", "n", "o", "p", "q", "r", "s", "t", "u", "v",
                   "w", "x", "y", "z">>
        low(ch) ==
            IF \E i \in 1..Len(upper) : upper[i] = ch
            THEN lower[CHOOSE i \in 1..Len(upper) : upper[i] = ch]
            ELSE ch
    IN  [i \in 1..Len(s) |-> low(s[i])]

\* main's match on client_direction.to_lowercase(), which is parse_direction
\* of the desktop front end.
parse_direction(s) ==
    LET d == to_lowercase(s)
    IN  CASE d = <<"l", "e", "f", "t">> -> "Left"
          [] d = <<"r", "i", "g", "h", "t">> -> "Right"
          [] d = <<"t", "o", "p">> -> "Top"
          [] d = <<"b", "o", "t", "t", "o", "m">> -> "Bottom"
          [] OTHER -> "Right"

\* front: which front end runs the server; arg: its direction argument;
\* phase: how far the start has come; la: the LocalAction thread.
\* A process that has started, with the threads left out.
Booted == [front |-> "cli", arg |-> <<>>, phase |-> "running", la |-> "none"]

BootStep(op) ==
    /\ last' = Step(op, NoConn, NoMsg)
    /\ sent' = <<>>
    /\ acts' = <<>>
    /\ evts' = <<>>
    /\ wrote' = <<>>
    /\ UNCHANGED <<screen_w, screen_h, center_x, center_y, state,
                   edge_devices, peers, queue, pc, hello, cancelled>>
    /\ UNCHANGED <<cvars, codec, pending, yvars>>

\* The direction argument becomes an Edge.
BootParse ==
    /\ boot.phase = "args"
    /\ boot' = [boot EXCEPT !.phase = "parsed"]
    /\ client_direction' = parse_direction(boot.arg)
    /\ BootStep("parse")
    /\ UNCHANGED <<router, listener, watcher>>

\* watcher.watch(clip_tx): the polling thread is spawned.
BootWatch ==
    /\ boot.phase = "parsed"
    /\ boot' = [boot EXCEPT !.phase = "watching"]
    /\ watcher' = [watcher EXCEPT !.thread = "spawned", !.op = "spawn"]
    /\ BootStep("watch")
    /\ UNCHANGED <<client_direction, router, listener>>

\* The LocalAction thread is spawned; it returns at once when
\* InputSimulator::new() fails.
BootThread(ok) ==
    /\ boot.phase = "watching"
    /\ boot' = [boot EXCEPT !.phase = "spawned",
                            !.la = IF ok THEN "running" ELSE "returned"]
    /\ BootStep("thread")
    /\ UNCHANGED <<client_direction, router, listener, watcher>>

\* Server::run: TcpListener::bind(..).await?, then the input task and the
\* accept loop.
BootRun(ok) ==
    /\ boot.phase = "spawned"
    /\ boot' = [boot EXCEPT !.phase = IF ok THEN "running" ELSE "failed"]
    /\ listener' = IF ok THEN "accepting" ELSE "closed"
    /\ router' = IF ok THEN "running" ELSE "stopped"
    /\ BootStep("run")
    /\ UNCHANGED <<client_direction, watcher>>

\* The LocalAction thread leaves its loop: main's select! has a cancelled
\* arm and an else arm, the desktop front end's `while let` ends with the
\* channel only, that is when Server::run has returned and its input task
\* has ended, which drops the senders.
LocalActionExit ==
    /\ boot.la = "running"
    /\ \/ boot.front = "cli" /\ cancelled
       \/ listener = "closed" /\ router = "stopped"
    /\ boot' = [boot EXCEPT !.la = "exited"]
    /\ BootStep("la_exit")
    /\ UNCHANGED <<client_direction, router, listener, watcher>>

\* ------------------------------------ capture thread, router, warp thread
\* How many motions of the hand a behaviour has, and how many events wait in
\* input_rx when the hand moves again.
MaxMoves == 4
MaxInputs == 2

\* cursor: the pointer's x on the controller's screen, in whole pixels (its
\* y stays on the centre row); input_rx: the captured events the router has
\* not taken yet, each with the motion of the hand that caused it;
\* local_action_rx: the queued warps; moves: the motions so far; hand and
\* forwarded: since the last entry, the motion of the hand in the events
\* handled in Remote, and the MouseDelta.dx enqueued for the focus device.
DeskIdle ==
    [cursor |-> CX, input_rx |-> <<>>, local_action_rx |-> <<>>,
     moves |-> 0, hand |-> 0, forwarded |-> 0]

\* rdev's callback: the hand moves the mouse by d pixels, the OS moves the
\* pointer and reports its new absolute position; the forwarding task turns
\* the event into Message::MouseMove and puts it on input_rx.
OperatorMoves(d) ==
    /\ desk.moves < MaxMoves
    /\ Len(desk.input_rx) < MaxInputs
    /\ desk.cursor + d \in 0..(ScreenW - 1)
    /\ desk' = [desk EXCEPT
                   !.cursor = @ + d,
                   !.moves = @ + 1,
                   !.input_rx =
                       Append(@, [msg |-> MouseMove(Px(desk.cursor + d),
                                                    Px(CY)),
                                  d |-> d])]
    /\ UNCHANGED <<svars, cvars, codec, watcher, boot, pending, locks, gui>>

\* The LocalAction thread takes a queued MoveMouse and places the pointer;
\* the capture thread sees the placement as one more MouseMove, which no
\* hand caused.
WarpExecutes ==
    /\ desk.local_action_rx # <<>>
    /\ LET a == Head(desk.local_action_rx)
       IN  desk' = [desk EXCEPT
                       !.cursor = a.x,
                       !.local_action_rx = Tail(@),
                       !.input_rx =
                           Append(@, [msg |-> MouseMove(Px(a.x), Px(a.y)),
                                      d |-> 0])]
    /\ UNCHANGED <<svars, cvars, codec, watcher, boot, pending, locks, gui>>

\* The input task: input_rx.recv(), then handle_input_message(..).await; the
\* warps it queues go to local_action_rx.
InputTask ==
    /\ desk.input_rx # <<>>
    /\ handle_input_message(Head(desk.input_rx).msg)
    /\ LET e == Head(desk.input_rx)
           fw == SelectSeq(sent', LAMBDA s : s.msg.type = "MouseDelta")
       IN  desk' = [desk EXCEPT
                       !.input_rx = Tail(@),
                       !.local_action_rx = @ \o acts',
                       !.hand = IF state.kind = "Local" THEN 0 ELSE @ + e.d,
                       !.forwarded =
                           IF state.kind = "Local" THEN 0
                           ELSE IF fw = <<>> THEN @
                           ELSE @ + fw[1].msg.dx]
    /\ UNCHANGED <<locks, gui>>

\* ------------------------------------------- the two locks and their users
\* The input task and the connection handlers.
Tasks == {"router"} \cup Conns

\* Faulty variant: the cleanup takes the focus mutex inside the registry's
\* write guard.
handler_locks_nested ==
    LET s(do, on) == [do |-> do, on |-> on]
    IN  <<s("io", "hello"),
          s("lock", "focus"), s("got", "focus"), s("unlock", "focus"),
          s("io", "welcome"),
          s("write", "peers"), s("got", "peers"), s("unlock", "peers"),
          s("lock", "focus"), s("got", "focus"), s("unlock", "focus"),
          s("io", "ready"),
          s("write", "peers"), s("got", "peers"),
          s("lock", "focus"), s("got", "focus"), s("unlock", "focus"),
          s("unlock", "peers")>>

\* Faulty variant: Welcome is written before the guard `fm` is dropped.
handler_locks_welcome_held ==
    LET s(do, on) == [do |-> do, on |-> on]
    IN  <<s("io", "hello"),
          s("lock", "focus"), s("got", "focus"),
          s("io", "welcome"), s("unlock", "focus"),
          s("write", "peers"), s("got", "peers"), s("unlock", "peers"),
          s("lock", "focus"), s("got", "focus"), s("unlock", "focus"),
          s("io", "ready"),
          s("write", "peers"), s("got", "peers"), s("unlock", "peers"),
          s("lock", "focus"), s("got", "focus"), s("unlock", "focus")>>

\* handle_client, statement by statement, as far as locks and the socket
\* go: framed.next() for Hello; focus.lock().await, drop(fm);
\* framed.send(Welcome); the block of peers.write().await; the block of
\* focus.lock().await; the Ready loop's reads and writes; the statement
\* peers.write().await.remove(..); the block of focus.lock().await.
handler_locks ==
    LET s(do, on) == [do |-> do, on |-> on]
    IN  <<s("io", "hello"),
          s("lock", "focus"), s("got", "focus"), s("unlock", "focus"),
          s("io", "welcome"),
          s("write", "peers"), s("got", "peers"), s("unlock", "peers"),
          s("lock", "focus"), s("got", "focus"), s("unlock", "focus"),
          s("io", "ready"),
          s("write", "peers"), s("got", "peers"), s("unlock", "peers"),
          s("lock", "focus"), s("got", "focus"), s("unlock", "focus")>>

\* The input task, one event: the recv of its select!, then
\* handle_input_message, which takes the focus mutex in its first statement
\* and keeps it until it returns; on the paths that forward something it
\* takes a read guard of the registry for one block.
router_locks(path) ==
    LET s(do, on) == [do |-> do, on |-> on]
    IN  IF path = "forward"
        THEN <<s("recv", "input_rx"),
               s("lock", "focus"), s("got", "focus"),
               s("read", "peers"), s("got", "peers"),
               s("send", "peer.tx"), s("unlock", "peers"),
               s("unlock", "focus")>>
        ELSE <<s("recv", "input_rx"),
               s("lock", "focus"), s("got", "focus"), s("unlock", "focus")>>

\* tokio's Mutex and RwLock queue their callers in arrival order. q is the
\* queue of a lock, holders at its front: task t has the lock when it is
\* first, or when it asked to read and only readers are before it.
granted(q, t) ==
    \E k \in 1..Len(q) :
        /\ q[k].task = t
        /\ \/ k = 1
           \/ \A j \in 1..k : q[j].mode = "read"

\* at: the statement each task stands at; path: the path of the router's
\* current event; focus, peers: the queues of the two locks.
LocksIdle ==
    [at |-> [t \in Tasks |-> 1], path |-> "plain", focus |-> <<>>,
     peers |-> <<>>]

program(t) == IF t = "router" THEN router_locks(locks.path) ELSE handler_locks

\* Task t executes the statement it stands at.
TaskStep(t) ==
    /\ locks.at[t] <= Len(program(t))
    /\ LET op == program(t)[locks.at[t]]
           q == locks[IF op.on = "focus" THEN "focus" ELSE "peers"]
           next == IF t = "router" /\ locks.at[t] = Len(program(t)) THEN 1
                   ELSE locks.at[t] + 1
           moved == [locks EXCEPT !.at[t] = next]
           mode == IF op.do = "lock" THEN "mutex" ELSE op.do
           without == SelectSeq(q, LAMBDA e : e.task # t)
       IN  CASE op.do \in {"lock", "read", "write"} ->
                    locks' = [moved EXCEPT
                                 ![op.on] = Append(@, [task |-> t,
                                                       mode |-> mode])]
             [] op.do = "got" -> granted(q, t) /\ locks' = moved
             [] op.do = "unlock" -> locks' = [moved EXCEPT ![op.on] = without]
             [] op.do = "recv" ->
                    \E p \in {"plain", "forward"} :
                        locks' = [moved EXCEPT !.path = p]
             [] op.do = "io" /\ op.on # "ready" ->
                    \* the peer may have gone: handle_client returns
                    \E ok \in BOOLEAN :
                        locks' = IF ok THEN moved
                                 ELSE [locks EXCEPT
                                          !.at[t] = Len(program(t)) + 1]
             [] OTHER -> locks' = moved
    /\ UNCHANGED <<svars, cvars, codec, watcher, boot, pending, desk, gui>>

\* ------------------------------------------------------ the GUI backend
\* How many sessions a behaviour starts.
MaxSessions == 3

\* AppState::default(), and no session task spawned yet. role, connected:
\* the fields; cancel: the session whose token the field holds (0: None);
\* task: the spawned session tasks; fired: the sessions whose token has
\* been cancelled; op, ret: the last step and what it returned.
GuiIdle ==
    [role |-> "Idle", connected |-> FALSE, cancel |-> 0,
     task |-> [i \in 1..MaxSessions |-> "unborn"], fired |-> {},
     op |-> "none", ret |-> "none"]

\* The body of start_server and start_client after the state mutex is
\* taken: refused unless role is Idle; otherwise a new token, the role, and
\* the spawned session task. The command holds the mutex until it returns.
start(role, connected) ==
    IF gui.role # "Idle"
    THEN gui' = [gui EXCEPT !.op = "start", !.ret = "Already running"]
    ELSE \E i \in 1..MaxSessions :
             /\ gui.task[i] = "unborn"
             /\ \A j \in 1..(i - 1) : gui.task[j] # "unborn"
             /\ gui' = [gui EXCEPT !.role = role, !.connected = connected,
                                   !.cancel = i, !.task[i] = "running",
                                   !.op = "start", !.ret = "ok"]

start_server ==
    /\ start("Server", TRUE)
    /\ UNCHANGED <<svars, cvars, codec, watcher, boot, pending, desk, locks>>

start_client ==
    /\ start("Client", gui.connected)
    /\ UNCHANGED <<svars, cvars, codec, watcher, boot, pending, desk, locks>>

\* stop: nothing when role is Idle; otherwise the stored token is taken and
\* cancelled and the state is reset. The session task is not awaited.
stop ==
    /\ gui' = IF gui.role = "Idle"
              THEN [gui EXCEPT !.op = "stop", !.ret = "ok"]
              ELSE [gui EXCEPT
                       !.fired = IF gui.cancel = 0 THEN @
                                 ELSE @ \cup {gui.cancel},
                       !.cancel = 0, !.role = "Idle", !.connected = FALSE,
                       !.op = "stop", !.ret = "ok"]
    /\ UNCHANGED <<svars, cvars, codec, watcher, boot, pending, desk, locks>>

\* Session task i: Server::run / Client::connect has returned (its token
\* fired, or it failed, or the peer closed), and the task resets the state
\* under the mutex and ends.
SessionEnds(i) ==
    /\ gui.task[i] = "running"
    /\ gui' = [gui EXCEPT !.task[i] = "ended", !.role = "Idle",
                          !.connected = FALSE, !.op = "end", !.ret = "none"]
    /\ UNCHANGED <<svars, cvars, codec, watcher, boot, pending, desk, locks>>

AsideInit == desk = DeskIdle /\ locks = LocksIdle /\ gui = GuiIdle

\* Nothing but the server and the dialer is being looked at.
IdleInit ==
    /\ codec = CodecIdle
    /\ watcher = WatcherIdle
    /\ boot = Booted
    /\ pending = [c \in Conns |-> NoMsg]
    /\ AsideInit

\* Everything of the server but its direction and its two loops.
InitServer ==
    /\ screen_w = ScreenW
    /\ screen_h = ScreenH
    /\ center_x = ScreenW \div 2
    /\ center_y = ScreenH \div 2
    /\ state = Local
    /\ edge_devices = {}
    /\ peers = {}
    /\ queue = [c \in Conns |-> <<>>]
    /\ pc = [c \in Conns |-> "idle"]
    /\ hello = [c \in Conns |-> NoHello]
    /\ cancelled = FALSE
    /\ last = [op |-> "init", conn |-> NoConn, msg |-> NoMsg, pre |-> Local]
    /\ sent = <<>>
    /\ acts = <<>>
    /\ evts = <<>>
    /\ wrote = <<>>

InitWith(dirs) ==
    /\ client_direction \in dirs
    /\ router = "running"
    /\ listener = "accepting"
    /\ InitServer
    /\ ClientInit

Router(inputs) ==
    \E msg \in inputs : handle_input_message(msg) /\ UNCHANGED yvars

\* handle_client for connection c, given what the peer sends (frames, Ping
\* sequence numbers) and what may end its two loops.
Session(c, frames, seqs, aborts, exits) ==
    \/ Accept(c)
    \/ \E h \in Hellos : GreetingHello(c, h)
    \/ \E frame \in frames : GreetingOther(c, frame)
    \/ \E why \in aborts : GreetingAbort(c, why)
    \/ \E ok \in BOOLEAN : SendWelcome(c, ok)
    \/ RegisterPeer(c)
    \/ RegisterEdge(c)
    \/ \E seq \in seqs, ok \in BOOLEAN : ReadyPing(c, seq, ok)
    \/ \E frame \in frames : ReadyOther(c, frame)
    \/ \E why \in exits : ReadyExit(c, why)
    \/ \E ok \in BOOLEAN : ReadyOutgoing(c, ok)
    \/ RemovePeer(c)
    \/ RemoveDevice(c)

Handler(c) ==
    Session(c, ClientFrames, {1}, {"cancel", "error", "closed"},
            {"cancel", "bye", "error", "closed"})

\* The sessions specification: two connections, cancellation, a few inputs,
\* the peers on the Right edge (the command line's default).
Init == InitWith({"Right"}) /\ IdleInit

Next ==
    \/ Router(SessionInputs)
    \/ \E c \in Conns : Handler(c)
    \/ Cancel
    \/ RouterStop
    \/ AcceptStop

Spec == Init /\ [][Next]_vars

\* The focus specification: one connection, every edge, every input.
InitFocus == InitWith(Edges) /\ IdleInit

NextFocus ==
    \/ Router(InputMsgs)
    \/ Handler(AcceptOrder[1])

SpecFocus == InitFocus /\ [][NextFocus]_vars

\* The teardown specification: the sessions with one input, a MouseMove on
\* the Right edge, and fairness: the runtime keeps polling a spawned task
\* and tokio's locks hand over in FIFO order, so a handler that stands at a
\* cleanup statement executes it.
TeardownInputs == {MouseMove(Px(ScreenW - 1), Px(CY))}

NextTeardown ==
    \/ Router(TeardownInputs)
    \/ \E c \in Conns : Handler(c)
    \/ Cancel
    \/ RouterStop
    \/ AcceptStop

FairSpec ==
    /\ Init
    /\ [][NextTeardown]_vars
    /\ \A c \in Conns : WF_vars(RemovePeer(c)) /\ WF_vars(RemoveDevice(c))

\* The ready-queue specification: the teardown specification, and a handler
\* in its Ready loop with a message in its channel gets to write it (select!
\* picks among its ready arms at random).
FairReady ==
    /\ FairSpec
    /\ \A c \in Conns : WF_vars(\E ok \in BOOLEAN : ReadyOutgoing(c, ok))

\* The roles specification: one connection handler of the server, with
\* every frame a peer may send, the router with one input, and the dialer
\* against every frame a server may send; each process with its own
\* cancellation token.
NextRoles ==
    \/ Router(TeardownInputs)
    \/ Session(AcceptOrder[1], RoleFrames, {1, 2},
               {"cancel", "error", "closed"},
               {"cancel", "bye", "error", "closed"})
    \/ Cancel
    \/ Client

SpecRoles == Init /\ [][NextRoles]_vars

\* The errors specification: two connections and the router, where nothing
\* but a fatal error (receive error, write error) ends a connection.
NextErrors ==
    \/ Router(TeardownInputs)
    \/ \E c \in Conns : Session(c, ClientFrames, {1}, {"error"}, {"error"})

SpecErrors == Init /\ [][NextErrors]_vars

\* The codec specification: a sender encodes up to MaxFrames messages, or
\* the stream holds bytes of another origin, and a reader decodes what
\* arrives, byte by byte or in one piece.
InitCodec ==
    /\ InitWith({"Right"})
    /\ codec \in
          {CodecStart(items, <<>>, mode) :
              items \in UNION {[1..n -> CodecItems] : n \in 0..MaxFrames}
                           \cup {<<i>> : i \in LargeItems},
              mode \in {"bytes", "whole"}}
            \cup {CodecStart(<<>>, raw, mode) :
                     raw \in RawBuffers, mode \in {"bytes", "whole"}}
    /\ watcher = WatcherIdle
    /\ boot = Booted
    /\ pending = [c \in Conns |-> NoMsg]
    /\ AsideInit

NextCodec ==
    \/ CodecEncode
    \/ CodecFeed
    \/ CodecDecode

SpecCodec == InitCodec /\ [][NextCodec]_vars

\* The cancellation specification: one connection with every frame a peer
\* may send, whose sends may suspend, the router, and cancellation. The
\* runtime keeps polling its tasks, so the accept loop and the input task
\* take their cancelled arm, and a handler that stands at its select! with
\* the token fired takes the cancelled arm sooner or later, however often
\* other arms run in between (select! picks among the ready arms at
\* random); the cleanup statements run as in the teardown specification.
\* Whether a suspended send returns is up to the peer: nothing is assumed.
SuspendingSession(c) ==
    \/ Session(c, RoleFrames, {1, 2}, {"cancel", "error", "closed"},
               {"cancel", "bye", "error", "closed"})
    \/ \E seq \in {1, 2} : ReadyPingSuspends(c, seq)
    \/ ReadyOutgoingSuspends(c)
    \/ \E ok \in BOOLEAN : SendResumes(c, ok)

NextCancel ==
    \/ Router(TeardownInputs)
    \/ SuspendingSession(AcceptOrder[1])
    \/ Cancel
    \/ RouterStop
    \/ AcceptStop

FairCancel ==
    /\ Init
    /\ [][NextCancel]_vars
    /\ WF_vars(AcceptStop)
    /\ WF_vars(RouterStop)
    /\ SF_vars(ReadyExit(AcceptOrder[1], "cancel"))
    /\ WF_vars(RemovePeer(AcceptOrder[1]))
    /\ WF_vars(RemoveDevice(AcceptOrder[1]))

\* The events specification: the cancellation specification, and a handler
\* that has written Welcome goes on to register its peer (two lock waits,
\* which FIFO locks end).
FairEvents ==
    /\ FairCancel
    /\ WF_vars(RegisterPeer(AcceptOrder[1]))
    /\ WF_vars(RegisterEdge(AcceptOrder[1]))

\* The process specification: the server process from its arguments to its
\* shutdown, with the clipboard watcher and the LocalAction thread, and
\* without connections. Its fairness: threads and tasks that can take a
\* step take it.
InitProcess ==
    /\ client_direction = None
    /\ router = "unstarted"
    /\ listener = "unbound"
    /\ InitServer
    /\ ClientInit
    /\ codec = CodecIdle
    /\ watcher = WatcherIdle
    /\ boot \in {[front |-> front, arg |-> arg, phase |-> "args",
                    la |-> "none"] :
                      front \in {"cli", "tauri"}, arg \in DirectionArgs}
    /\ pending = [c \in Conns |-> NoMsg]
    /\ AsideInit

NextProcess ==
    \/ BootParse
    \/ BootWatch
    \/ \E ok \in BOOLEAN : BootThread(ok)
    \/ \E ok \in BOOLEAN : BootRun(ok)
    \/ \E ok \in BOOLEAN : WatcherOpen(ok)
    \/ \E read \in Reads : WatcherPoll(read)
    \/ BridgeStop
    \/ LocalActionExit
    \/ Cancel
    \/ RouterStop
    \/ AcceptStop

SpecProcess == InitProcess /\ [][NextProcess]_vars

FairProcess ==
    /\ SpecProcess
    /\ WF_vars(BootParse) /\ WF_vars(BootWatch)
    /\ WF_vars(\E ok \in BOOLEAN : BootThread(ok))
    /\ WF_vars(\E ok \in BOOLEAN : BootRun(ok))
    /\ WF_vars(\E ok \in BOOLEAN : WatcherOpen(ok))
    /\ WF_vars(\E read \in Reads : WatcherPoll(read))
    /\ WF_vars(BridgeStop)
    /\ WF_vars(LocalActionExit)
    /\ WF_vars(RouterStop)
    /\ WF_vars(AcceptStop)

\* The peer specification: the client process alone, against every frame
\* a server may send, on a machine whose clipboard changes. Its fairness:
\* Client::connect keeps being polled.
NextPeer ==
    \/ Client
    \/ \E text \in ClipTexts : PeerClipboardChange(text)

FairPeer == Init /\ [][NextPeer]_vars /\ WF_vars(Client)

\* The edge specification: one connection, closed by the peer only, with
\* the peer on the Top edge, and cursor positions on the thresholds and one
\* pixel inside them: the four corners, one position on each edge alone,
\* and one on none.
EdgeMoves ==
    LET lo == EDGE_THRESHOLD
        in == EDGE_THRESHOLD + 1
        xhi == ScreenW - EDGE_THRESHOLD
        yhi == ScreenH - EDGE_THRESHOLD
    IN  {MouseMove(Px(p[1]), Px(p[2])) :
            p \in {<<lo, lo>>, <<lo, yhi>>, <<xhi, lo>>, <<xhi, yhi>>,
                   <<lo, in>>, <<xhi, in>>, <<in, lo>>, <<in, yhi>>,
                   <<in, in>>}}

InitEdge == InitWith({"Top"}) /\ IdleInit

NextEdge ==
    \/ Router(EdgeMoves)
    \/ Session(AcceptOrder[1], ClientFrames, {1}, {"closed"}, {"closed"})

SpecEdge == InitEdge /\ [][NextEdge]_vars

\* The pointer specification: the hand moves the mouse left and right on
\* the centre row, the capture thread, the input task and the LocalAction
\* thread run in any order, and one peer connects, is bound to the Right
\* edge and stays connected.
NextDesk ==
    \/ \E d \in {0 - 1, 1} : OperatorMoves(d)
    \/ InputTask
    \/ WarpExecutes
    \/ Accept(AcceptOrder[1])
    \/ \E h \in Hellos : GreetingHello(AcceptOrder[1], h)
    \/ SendWelcome(AcceptOrder[1], TRUE)
    \/ RegisterPeer(AcceptOrder[1])
    \/ RegisterEdge(AcceptOrder[1])
    \/ ReadyOutgoing(AcceptOrder[1], TRUE)

SpecDesk == Init /\ [][NextDesk]_vars

\* The locks specification: the input task and two connection handlers,
\* each at its own pace.
NextLocks == \E t \in Tasks : TaskStep(t)

SpecLocks == Init /\ [][NextLocks]_vars

\* The GUI specification: the front end invokes the three commands in any
\* order, and session tasks end when they end.
NextGui ==
    \/ start_server
    \/ start_client
    \/ stop
    \/ \E i \in 1..MaxSessions : SessionEnds(i)

SpecGui == Init /\ [][NextGui]_vars

\* ================================================================ claims
IsInput == last.op = "input"
IsMove == IsInput /\ last.msg.type = "MouseMove"
FocusOn(st, id) == st.kind = "Remote" /\ st.device_id = id
Registered(id) == peers_get(peers, id) # {}

\* C1: whenever focus is Remote{device_id}, device_id is a key of the peer
\* registry.
C1_FocusDeviceRegistered ==
    state.kind = "Remote" => Registered(state.device_id)

\* The messages the step enqueued, each with the device it was meant for.
SentTo == [i \in 1..Len(sent) |-> <<sent[i].to, sent[i].msg>>]

Min(a, b) == IF a <= b THEN a ELSE b
Max(a, b) == IF a >= b THEN a ELSE b
Opposite == [Left |-> "Right", Right |-> "Left", Top |-> "Bottom",
             Bottom |-> "Top"]
\* The point <<x, y>> lies on `edge` of a screen of w by h pixels.
OnEdge(edge, x, y, w, h) ==
    \/ edge = "Left" /\ x = 0
    \/ edge = "Right" /\ x = Px(w)
    \/ edge = "Top" /\ y = 0
    \/ edge = "Bottom" /\ y = Px(h)
\* The Remote MouseMove that was just handled: its delta against the centre,
\* the clamped new position, and whether that lies on the exit edge.
MoveDx == last.msg.x - Px(center_x)
MoveDy == last.msg.y - Px(center_y)
MoveNx == Max(0, Min(last.pre.virtual_x + MoveDx, Px(last.pre.remote_w)))
MoveNy == Max(0, Min(last.pre.virtual_y + MoveDy, Px(last.pre.remote_h)))
MoveExits ==
    OnEdge(Opposite[last.pre.entered_edge], MoveNx, MoveNy,
           last.pre.remote_w, last.pre.remote_h)
RemoteMove == IsMove /\ last.pre.kind = "Remote"
MovedOn == RemoteMove /\ <<MoveDx, MoveDy>> # <<0, 0>> /\ ~MoveExits
MovedOut == RemoteMove /\ <<MoveDx, MoveDy>> # <<0, 0>> /\ MoveExits

\* C3: in every Remote state the virtual cursor lies within the remote
\* screen: 0 <= virtual_x <= remote_w and 0 <= virtual_y <= remote_h.
C3_VirtualCursorInBounds ==
    state.kind = "Remote" =>
        /\ 0 <= state.virtual_x /\ state.virtual_x <= Px(state.remote_w)
        /\ 0 <= state.virtual_y /\ state.virtual_y <= Px(state.remote_h)

\* The entry mapping of edge for the cursor <<x, y>> and a remote screen of
\* w by h: the orthogonal component scaled, the normal one on the border.
EntryMapping(edge, x, y, w, h, vx, vy) ==
    \/ edge = "Right" /\ vx = 0 /\ vy * screen_h = y * h
    \/ edge = "Left" /\ vx = Px(w) /\ vy * screen_h = y * h
    \/ edge = "Bottom" /\ vx * screen_w = x * w /\ vy = 0
    \/ edge = "Top" /\ vx * screen_w = x * w /\ vy = Px(h)

\* C4: in Local a MouseMove switches focus to Remote iff check_edge's edge
\* has a bound device; it then sets the entry position and entered_edge,
\* queues one warp to the centre and enqueues EnterScreen then MouseMove for
\* that device; otherwise focus stays Local and nothing is emitted.
C4_Entry ==
    (IsMove /\ last.pre.kind = "Local") =>
        LET edge == check_edge(last.msg.x, last.msg.y, screen_w, screen_h)
            bound == IF edge = None THEN {} ELSE edge_get(edge_devices, edge)
        IN  IF bound # {}
            THEN \E e \in bound :
                    /\ state.kind = "Remote"
                    /\ state.device_id = e.id
                    /\ state.remote_w = e.w
                    /\ state.remote_h = e.h
                    /\ state.entered_edge = edge
                    /\ EntryMapping(edge, last.msg.x, last.msg.y, e.w, e.h,
                                    state.virtual_x, state.virtual_y)
                    /\ acts = <<MoveMouse(center_x, center_y)>>
                    /\ SentTo =
                         << <<e.id, EnterScreen(state.virtual_x,
                                                state.virtual_y)>>,
                            <<e.id, MouseMove(state.virtual_x,
                                              state.virtual_y)>> >>
            ELSE state = Local /\ sent = <<>> /\ acts = <<>>

\* C5: a Remote MouseMove with a delta other than (0,0) whose clamped new
\* position is not on the exit edge sets the virtual cursor to that
\* position, enqueues one MouseDelta{dx,dy} for the focus device and one
\* warp to the centre, and keeps device, remote size and entered_edge.
C5_RemoteMotion ==
    MovedOn =>
        /\ state = Remote(last.pre.device_id, MoveNx, MoveNy,
                          last.pre.remote_w, last.pre.remote_h,
                          last.pre.entered_edge)
        /\ SentTo = << <<last.pre.device_id, MouseDelta(MoveDx, MoveDy)>> >>
        /\ acts = <<MoveMouse(center_x, center_y)>>

C7_ReverseExit ==
    /\ MovedOut =>
        /\ SentTo = << <<last.pre.device_id,
                         LeaveScreen(Opposite[last.pre.entered_edge],
                                     MoveNx, MoveNy)>> >>
        /\ state = Local
        /\ acts = <<>>
    /\ (last.pre.kind = "Local" /\ sent # <<>>) =>
        /\ IsMove
        /\ check_edge(last.msg.x, last.msg.y, screen_w, screen_h) # None
        /\ edge_get(edge_devices,
                    check_edge(last.msg.x, last.msg.y, screen_w, screen_h))
               # {}

\* ---------------------------------------------------------------- C2
BoundTo(map, id) == {e \in map : e.id = id}
\* Device id is on no edge and does not hold focus.
Detached(map, st, id) == BoundTo(map, id) = {} /\ ~FocusOn(st, id)

C2_Step ==
    /\ \A c \in Conns :
          \* whatever ends the Ready loop, the cleanup comes next
          /\ (pc[c] = "ready" /\ pc'[c] # "ready") => pc'[c] = "rm_peers"
          /\ (pc[c] = "rm_peers" /\ pc'[c] # "rm_peers") =>
                /\ pc'[c] = "rm_focus"
                /\ peers_get(peers', hello[c].id) = {}
          /\ (pc[c] = "rm_focus" /\ pc'[c] # "rm_focus") =>
                /\ pc'[c] = "done"
                /\ Detached(edge_devices', state', hello[c].id)
                /\ FocusOn(state, hello[c].id) => state' = Local
                /\ evts' = <<DeviceDisconnected(hello[c].id)>>
          \* the handler is over: it emits nothing more
          /\ pc[c] = "done" => pc'[c] = "done"
    /\ \A i \in 1..Len(evts') :
          evts'[i].type = "DeviceDisconnected" =>
              /\ pc[last'.conn] = "rm_focus"
              /\ evts' = <<DeviceDisconnected(hello[last'.conn].id)>>
    \* once detached, a device gets no message and no entry until a
    \* handler registers it on the edge again
    /\ \A id \in DeviceIds :
          (/\ Detached(edge_devices, state, id)
           /\ ~(last'.op = "register_edge" /\ hello[last'.conn].id = id)) =>
              /\ Detached(edge_devices', state', id)
              /\ \A i \in 1..Len(sent') : sent'[i].to # id

\* C2: a handler that leaves its Ready loop, for whatever reason, eventually
\* removes its device id from the registry, removes every edge binding to
\* it, resets focus to Local if it was on that id and emits DeviceDisconnected
\* exactly once; from then on nothing is forwarded for that device and no
\* MouseMove enters it until a peer is registered on the edge again.
C2_Teardown ==
    /\ [][C2_Step]_vars
    /\ \A c \in Conns : (pc[c] \in {"rm_peers", "rm_focus"}) ~> (pc[c] = "done")

C2_Witness ==
    /\ last.op = "remove_device"
    /\ pc[last.conn] = "done"
    /\ FocusOn(last.pre, hello[last.conn].id)
    /\ state = Local
    /\ edge_devices = {}
    /\ evts = <<DeviceDisconnected(hello[last.conn].id)>>

\* ---------------------------------------------------------------- C8
\* C8: remove_device(id) while focus is Remote{id} sets focus to Local,
\* removes every edge binding to id and enqueues nothing for any peer; the
\* bindings of other devices, and focus on another device, stay as they are.
C8_RemoveDevice ==
    [][last'.op = "remove_device" =>
        LET id == hello[last'.conn].id IN
        /\ FocusOn(state, id) => state' = Local
        /\ ~FocusOn(state, id) => state' = state
        /\ BoundTo(edge_devices', id) = {}
        /\ \A e \in edge_devices : e.id # id => e \in edge_devices'
        /\ edge_devices' \subseteq edge_devices
        /\ sent' = <<>>
        /\ \A c \in Conns \ {last'.conn} : queue'[c] = queue[c]]_vars

C8_Witness ==
    /\ last.op = "remove_device"
    /\ FocusOn(last.pre, hello[last.conn].id)
    /\ state = Local
    /\ edge_devices # {}

\* ---------------------------------------------------------------- C9
\* C9: every edge is bound to at most one device; registering a device on a
\* bound edge replaces the binding and leaves FocusState as it was.
C9_EdgeOccupancy ==
    /\ \A edge \in Edges : Cardinality(edge_get(edge_devices, edge)) <= 1
    /\ last.op = "register_edge" =>
        /\ edge_get(edge_devices, client_direction) =
               {[edge |-> client_direction, id |-> hello[last.conn].id,
                 w |-> hello[last.conn].w, h |-> hello[last.conn].h]}
        /\ state = last.pre

C9_Witness ==
    /\ last.op = "register_edge"
    /\ state.kind = "Remote"
    /\ state.device_id # hello[last.conn].id
    /\ state.entered_edge = client_direction

\* --------------------------------------------------------------- C10
ClipboardTypes == {"ClipboardText", "ClipboardImage"}

\* C10: in Local every input other than MouseMove is dropped: nothing is
\* enqueued, no local action is queued, FocusState and the edge map stay;
\* and a clipboard message is only ever enqueued by the step that handles
\* that very clipboard event, in Remote: none is sent later.
C10_LocalDrops ==
    [][/\ (last'.op = "input" /\ state.kind = "Local"
              /\ last'.msg.type # "MouseMove") =>
            /\ sent' = <<>>
            /\ acts' = <<>>
            /\ queue' = queue
            /\ state' = state
            /\ edge_devices' = edge_devices
       /\ \A i \in 1..Len(sent') :
            sent'[i].msg.type \in ClipboardTypes =>
                /\ last'.op = "input"
                /\ sent'[i].msg = last'.msg
                /\ state.kind = "Remote"]_vars

C10_Witness ==
    /\ IsInput
    /\ last.pre = Local
    /\ last.msg \in {ClipboardText("hi"), ClipboardImage(1, 1, <<0>>)}
    /\ state = Local
    /\ \E e \in edge_devices : Registered(e.id)

\* --------------------------------------------------------------- C11
ForwardedTypes ==
    {"KeyEvent", "MouseButtonEvent", "MouseScroll", "ClipboardText",
     "ClipboardImage"}

\* C11: in Remote{d} a key, button, scroll or clipboard event is enqueued,
\* unchanged and once, on the outbound queue registered for d and on no
\* other queue, with no local action and FocusState as it was.
C11_Forward ==
    [][(/\ last'.op = "input"
        /\ state.kind = "Remote"
        /\ last'.msg.type \in ForwardedTypes) =>
          /\ \E p \in peers_get(peers, state.device_id) :
                /\ queue' = [queue EXCEPT ![p.conn] = Append(@, last'.msg)]
                /\ sent' = <<[to |-> state.device_id, conn |-> p.conn,
                              msg |-> last'.msg]>>
          /\ acts' = <<>>
          /\ state' = state]_vars

\* --------------------------------------------------------------- C12
\* C12: per connection the channel is a FIFO: the router appends what it
\* sends, in order; the handler's outgoing arm takes the oldest message,
\* once, and the frame it writes is that message; nothing else touches the
\* channel until the handler returns, and the only other frames a handler
\* writes are Welcome and the Pong replies.
C12_Fifo ==
    [][svars' # svars =>
        /\ \A c \in Conns :
              IF last'.op = "outgoing" /\ last'.conn = c
              THEN /\ queue[c] # <<>>
                   /\ queue'[c] = Tail(queue[c])
                   /\ wrote' \in {<<>>,
                                  <<[conn |-> c, frame |-> Head(queue[c])]>>}
              ELSE IF last'.op = "input"
              THEN queue'[c] = queue[c] \o msgs_for(sent', c)
              ELSE IF last'.op = "remove_device" /\ last'.conn = c
              THEN queue'[c] = <<>>
              ELSE queue'[c] = queue[c]
        /\ \A i \in 1..Len(wrote') :
              \/ last'.op = "outgoing"
              \/ wrote'[i].frame.type \in {"Pong", "Welcome"}]_vars

C12_Witness ==
    /\ last.op = "outgoing"
    /\ Len(wrote) = 1
    /\ wrote[1].frame.type = "EnterScreen"
    /\ Len(queue[last.conn]) = 1
    /\ queue[last.conn][1].type = "MouseMove"
    /\ pc[last.conn] = "ready"

\* --------------------------------------------------------------- C13
\* A step by which connection c leaves its Ready loop because the transport
\* failed: a write error, a receive error or the end of the stream.
TransportFailed(c) ==
    /\ last'.conn = c
    /\ \/ last'.op \in {"ping", "outgoing"}
       \/ last'.op = "ready_exit" /\ last'.msg.why \in {"error", "closed"}

\* C13: a message in the channel of a connection in Ready is eventually
\* written to the socket unless the transport fails: the handler leaves
\* Ready with messages still in its channel only on a transport failure, and
\* while it stays in Ready it drains the channel.
C13_NoDrop ==
    /\ [][svars' # svars =>
            \A c \in Conns :
               (pc[c] = "ready" /\ queue[c] # <<>> /\ pc'[c] # "ready") =>
                   TransportFailed(c)]_vars
    /\ \A c \in Conns :
          (pc[c] = "ready" /\ queue[c] # <<>>) ~>
              (pc[c] # "ready" \/ queue[c] = <<>>)

\* --------------------------------------------------------------- C14
\* A step of the acceptor's handler / of the dialer that handles the frame.
ServerGot(type) ==
    /\ svars' # svars
    /\ last'.op \in {"ping", "ready_other"}
    /\ last'.msg.type = type
ClientGot(type) ==
    /\ cvars' # cvars
    /\ clast'.op = "ready_frame"
    /\ clast'.msg.type = type
\* The step changes nothing of the controller but the record of the step.
ServerQuiet ==
    UNCHANGED <<state, edge_devices, peers, queue, pc, hello, cancelled>>

C15_ByeEndsReady ==
    [][/\ (/\ svars' # svars
           /\ last'.op = "ready_exit"
           /\ last'.msg.why = "bye") =>
              /\ pc[last'.conn] = "ready"
              /\ pc'[last'.conn] = "rm_peers"
       /\ ClientGot("Bye") =>
              /\ cpc' = "closed"
              /\ cevts' = <<Disconnected>>
              /\ cresult' # "none"]_vars

\* --------------------------------------------------------------- C16
\* C16: when the client's cancellation token has fired and Client::connect
\* takes the cancelled arm, waiting for Welcome or in the receive loop, it
\* writes Bye{device_id} on the connection before it closes it (in the
\* receive loop the write may fail: the Bye is then lost with the socket).
C16_ByeOnCancel ==
    [][(/\ cvars' # cvars
        /\ cpc \in {"wait_welcome", "ready"}
        /\ cpc' = "closed"
        /\ clast'.msg = Reason("cancel")) =>
          \/ cwrote' = <<Bye(ClientDeviceId)>>
          \/ clast'.op = "ready_exit" /\ cwrote' = <<>>]_vars

\* --------------------------------------------------------------- C17
Registering == {"reg_peers", "reg_edge", "ready"}
WelcomeTo(c) == <<[conn |-> c, frame |-> Welcome]>>

\* C17: on the acceptor a frame other than Hello received before the
\* handshake is discarded: the connection stays in Greeting and registry,
\* edge map, focus and queues stay as they are.  Welcome is written once per
\* connection, only after its Hello; and the peer's registry entry and edge
\* binding are made only after that Welcome was written successfully.
C17_Handshake ==
    [][svars' # svars =>
        /\ last'.op = "greeting_other" =>
              /\ pc[last'.conn] = "greeting"
              /\ last'.msg.type # "Hello"
              /\ wrote' = <<>>
              /\ evts' = <<>>
              /\ UNCHANGED <<state, edge_devices, peers, queue, pc, hello>>
        /\ \A c \in Conns :
              \* Welcome is written by the step that leaves "welcome", which
              \* is entered from Greeting by a Hello and never again
              /\ (\E i \in 1..Len(wrote') :
                     wrote'[i].conn = c /\ wrote'[i].frame.type = "Welcome") =>
                    /\ pc[c] = "welcome"
                    /\ pc'[c] = "reg_peers"
                    /\ wrote' = WelcomeTo(c)
              /\ (pc'[c] = "welcome" /\ pc[c] # "welcome") =>
                    /\ pc[c] = "greeting"
                    /\ last'.op = "hello"
                    /\ last'.conn = c
              /\ (pc[c] = "welcome" /\ last'.conn = c) => pc'[c] # "welcome"
              \* registration follows the written Welcome
              /\ (pc'[c] \in Registering /\ pc[c] \notin Registering) =>
                    /\ pc[c] = "welcome"
                    /\ wrote' = WelcomeTo(c)
        /\ peers' \ peers # {} =>
              /\ last'.op = "register_peer"
              /\ pc[last'.conn] = "reg_peers"
              /\ peers' \ peers \subseteq
                     {[id |-> hello[last'.conn].id, conn |-> last'.conn,
                       w |-> hello[last'.conn].w, h |-> hello[last'.conn].h]}
        /\ edge_devices' \ edge_devices # {} =>
              /\ last'.op = "register_edge"
              /\ pc[last'.conn] = "reg_edge"]_vars

C17_Witness ==
    /\ last.op = "greeting_other"
    /\ pc[last.conn] = "greeting"
    /\ state.kind = "Remote"
    /\ Registered(state.device_id)
    /\ \E c \in Conns : pc[c] = "ready" /\ queue[c] # <<>>

\* --------------------------------------------------------------- C18
SilentEnds == {"cancel", "closed"}

\* C18: when cancellation fires or the stream closes during Greeting, the
\* handler of either role ends without reporting an error (it returns
\* Ok(())), registers no peer and emits no connected or disconnected event.
C18_SilentGreetingEnd ==
    [][/\ (/\ svars' # svars
           /\ last'.op = "greeting_abort"
           /\ last'.msg.why \in SilentEnds) =>
              /\ last'.msg.result = "ok"
              /\ pc'[last'.conn] = "aborted"
              /\ evts' = <<>>
              /\ wrote' = <<>>
              /\ UNCHANGED <<state, edge_devices, peers, queue>>
       /\ (/\ cvars' # cvars
           /\ clast'.op = "wait_abort"
           /\ clast'.msg.why \in SilentEnds) =>
              /\ cresult' = "ok"
              /\ cpc' = "closed"
              /\ cevts' = <<>>
              /\ cfwd' = <<>>]_vars

\* --------------------------------------------------------------- C19
\* The phase of a connection, from where its handler stands.
Phase(p) ==
    CASE p = "idle" -> "None"
      [] p \in {"greeting", "welcome"} -> "Greeting"
      [] p \in {"reg_peers", "reg_edge", "ready"} -> "Ready"
      [] p \in {"rm_peers", "rm_focus"} -> "Terminating"
      [] p \in {"done", "aborted"} -> "Closed"
PhaseChange(c) == <<Phase(pc[c]), Phase(pc'[c])>>
FullPath ==
    {<<"None", "Greeting">>, <<"Greeting", "Ready">>,
     <<"Ready", "Terminating">>, <<"Terminating", "Closed">>}

\* C19 as stated: every accepted connection goes through Greeting, Ready and
\* Terminating, each once and in that order, whatever happens on it.
C19_AllPhases ==
    [][\A c \in Conns :
          Phase(pc'[c]) # Phase(pc[c]) => PhaseChange(c) \in FullPath]_vars

\* C19, amended: a connection goes through Greeting, Ready and Terminating
\* in that order and never enters a phase twice; it enters Ready only by
\* the Welcome it wrote, and once in Ready it always goes through
\* Terminating before it closes; but cancellation, the end of the stream, a
\* receive error or a failed Welcome write during Greeting close it directly,
\* with nothing registered and no event emitted.
C19_Phases ==
    [][\A c \in Conns :
          Phase(pc'[c]) # Phase(pc[c]) =>
              /\ PhaseChange(c) \in FullPath \cup {<<"Greeting", "Closed">>}
              /\ last'.conn = c
              /\ PhaseChange(c) = <<"Greeting", "Ready">> =>
                     wrote' = WelcomeTo(c)
              /\ PhaseChange(c) = <<"Greeting", "Closed">> =>
                     /\ last'.op \in {"greeting_abort", "welcome"}
                     /\ wrote' = <<>>
                     /\ evts' = <<>>
                     /\ UNCHANGED <<state, edge_devices, peers, queue>>]_vars

C19_Witness ==
    \E c, d \in Conns :
        /\ pc[c] = "done"
        /\ pc[d] = "aborted"
        /\ last.op = "greeting_abort"
        /\ last.conn = d

\* --------------------------------------------------------------- C20
\* The step is connection c's way out: the step on which it fails, or a
\* step of its cleanup.
GoingDown(c) ==
    /\ svars' # svars
    /\ last'.conn = c
    /\ Phase(pc'[c]) \in {"Terminating", "Closed"}

\* C20: a fatal error on one connection ends that connection only: no step
\* of its way out stops the accept loop, and every other connection in
\* Ready, whatever device id it advertised, keeps its place in the Ready
\* loop, its registry entry, its channel and, if its device holds focus, the
\* focus.
C20_ErrorIsolation ==
    [][\A c \in Conns :
          GoingDown(c) =>
              /\ listener' = "accepting"
              /\ \A d \in Conns \ {c} :
                    pc[d] = "ready" =>
                        /\ pc'[d] = "ready"
                        /\ \A p \in peers : p.conn = d => p \in peers'
                        /\ queue'[d] = queue[d]
                        /\ FocusOn(state, hello[d].id) => state' = state]_vars

\* ------------------------------------------------------------ the codec
Encoded == codec.items = <<>> /\ codec.dst.pad = usize(0)
\* Everything encoded has arrived and decode has asked for more.
Drained ==
    /\ Encoded
    /\ codec.fed = Len(codec.dst.bytes)
    /\ codec.op = "decode"
    /\ codec.res = "none"
\* The 4-byte length field decode saw, when there was one.
HasLength == codec.op = "decode" /\ Len(codec.pre) >= 4
LengthField == from_be_bytes(SubSeq(codec.pre, 1, 4))

RECURSIVE decode_all(_)
\* Single-shot decoding: decode is called on the whole stream until it no
\* longer returns a message.
decode_all(src) ==
    LET r == decode(src)
    IN  IF r.res = "some" THEN <<r.msg>> \o decode_all(r.src) ELSE <<>>

\* The message just encoded into an empty buffer, and its payload's length.
EncodedAlone == codec.op = "encode" /\ codec.dst_pre = Buf(<<>>)
PayloadLen == buf_len(serialize(codec.item))

C22_Streaming ==
    /\ (codec.op = "decode" /\ codec.res = "none") => codec.src = codec.pre
    /\ Drained =>
           /\ codec.out = decode_all(codec.dst.bytes)
           /\ codec.enc # "too_large" => codec.out = codec.done

C22_Witness ==
    /\ Drained
    /\ codec.mode = "bytes"
    /\ Len(codec.done) = MaxFrames
    /\ codec.done[1] # codec.done[2]
    /\ codec.out = codec.done

\* C23: decode, on a buffer whose length field is above 16 MiB, returns the
\* frame-too-large error and leaves the buffer as it was, whatever follows
\* the length field; a length field of 16 MiB is not refused.
C23_DecodeBound ==
    HasLength =>
        /\ gt(LengthField, MAX_FRAME_SIZE) =>
               (codec.res = "too_large" /\ codec.src = codec.pre)
        /\ LengthField = MAX_FRAME_SIZE => codec.res # "too_large"

C23_Witness ==
    /\ HasLength
    /\ Len(codec.pre) > 4
    /\ LengthField = add(MAX_FRAME_SIZE, usize(1))
    /\ codec.res = "too_large"
    /\ codec.src = codec.pre

\* C24: encode, on a message whose serialized payload is longer than
\* 16 MiB, returns the frame-too-large error and leaves the output buffer
\* as it was; and a frame it writes has a length prefix equal to the
\* payload's length, at most 16 MiB.
C24_EncodeBound ==
    codec.op = "encode" =>
        LET n == buf_len(serialize(codec.item))
        IN  /\ gt(n, MAX_FRAME_SIZE) =>
                   (codec.enc = "too_large" /\ codec.dst = codec.dst_pre)
            /\ codec.enc = "ok" =>
                   (codec.len = n /\ ~gt(n, MAX_FRAME_SIZE))

\* --------------------------------------------------------- cancellation
InReadyLoop(c) == pc[c] \in {"ready", "writing"}

\* C25: once the token has fired, the accept loop returns and the input
\* task stops, and a handler that is in its Ready loop, at the select! or
\* inside an arm, leaves the loop and finishes its cleanup.
C25_CancelStopsAll ==
    /\ cancelled ~> (listener = "closed" /\ router = "stopped")
    /\ \A c \in Conns : (cancelled /\ InReadyLoop(c)) ~> (pc[c] = "done")

\* The same for a handler that stands at the select!.
C25_AtSelect ==
    /\ cancelled ~> (listener = "closed" /\ router = "stopped")
    /\ \A c \in Conns :
          [](pc[c] # "writing") =>
              ((cancelled /\ InReadyLoop(c)) ~> (pc[c] = "done"))

\* ---------------------------------------------------------- the process
\* The token has fired, the bridge task has dropped the watcher's receiver,
\* and the senders of the LocalAction channel are gone.
Shutdown ==
    /\ cancelled
    /\ watcher.rx = "closed"
    /\ listener = "closed" /\ router = "stopped"
LocalActionEnded == boot.la # "running"
WatcherEnded == watcher.thread \notin {"spawned", "polling"}

\* C26: after shutdown the LocalAction thread and the clipboard polling
\* thread both come to an end.
C26_ThreadsTerminate == Shutdown ~> (LocalActionEnded /\ WatcherEnded)

\* The LocalAction thread's half of it.
C26_LocalActionTerminates == Shutdown ~> LocalActionEnded

\* C27: a poll sends a Text event exactly when the text it read is not
\* empty and differs from the text read at the poll before (at the first
\* poll: is not empty); a poll that read the same text again sends nothing.
C27_EmitsOnChange ==
    (watcher.op = "poll" /\ watcher.read.ok) =>
        /\ watcher.emitted # <<>> <=>
               (watcher.read.text # "" /\ watcher.read.text # watcher.prev)
        /\ watcher.emitted # <<>> =>
               watcher.emitted = <<Text(watcher.read.text)>>

\* The same against the text last sent, which is what the loop remembers.
C27_EmitsOnNew ==
    (watcher.op = "poll" /\ watcher.read.ok /\ watcher.emitted = <<>>) =>
        (watcher.read.text = "" \/ watcher.read.text = watcher.last_text)

\* The four directions, in lower case.
Directions ==
    {<<"l", "e", "f", "t">>, <<"r", "i", "g", "h", "t">>, <<"t", "o", "p">>,
     <<"b", "o", "t", "t", "o", "m">>}

\* C29: a direction argument that is none of left, right, top, bottom, in
\* any case of letters, configures no edge and keeps the server from
\* listening.
C29_BadDirectionFatal ==
    (boot # Booted /\ to_lowercase(boot.arg) \notin Directions) =>
        (client_direction = None /\ listener # "accepting")

\* ------------------------------------------------- the peer's clipboard
ClientWrote(frame) == \E i \in 1..Len(cwrote) : cwrote[i] = frame

\* C28: while the peer's connection is in Ready, a text that appears on its
\* clipboard is sent to the controller as a ClipboardText frame, unless the
\* connection leaves Ready first.
C28_ClipboardSentBack ==
    \A text \in ClipTexts \ {""} :
        (cpc = "ready" /\ clast.op = "clipboard" /\ cclip = text)
            ~> (cpc # "ready" \/ ClientWrote(ClipboardText(text)))

\* No step of the client process writes a ClipboardText frame.
C28_NeverSent ==
    \A text \in ClipTexts : ~ClientWrote(ClipboardText(text))

\* ------------------------------------------------------------ the edges
\* The edge conditions as the specification words them, threshold 2.
Reaches(edge, x, y) ==
    CASE edge = "Left" -> x <= Px(2)
      [] edge = "Right" -> x >= Px(screen_w) - Px(2)
      [] edge = "Top" -> y <= Px(2)
      [] edge = "Bottom" -> y >= Px(screen_h) - Px(2)
TieOrder == <<"Left", "Right", "Top", "Bottom">>
\* The first edge, in that order, whose condition holds.
FirstReached(x, y) ==
    LET hits == {i \in 1..Len(TieOrder) : Reaches(TieOrder[i], x, y)}
    IN  IF hits = {} THEN None
        ELSE TieOrder[CHOOSE i \in hits : \A j \in hits : i <= j]

\* C30: for the position of every MouseMove handled, check_edge returns the
\* first of Left, Right, Top, Bottom whose condition holds, or none; and a
\* move that takes focus from Local enters through that edge.
C30_TieOrder ==
    IsMove =>
        /\ check_edge(last.msg.x, last.msg.y, screen_w, screen_h) =
               FirstReached(last.msg.x, last.msg.y)
        /\ (last.pre.kind = "Local" /\ state.kind = "Remote") =>
               state.entered_edge = FirstReached(last.msg.x, last.msg.y)

\* A move into the top left corner with the peer on the Top edge: Left wins
\* and focus stays Local.
C30_Witness ==
    /\ IsMove
    /\ last.pre.kind = "Local"
    /\ Reaches("Left", last.msg.x, last.msg.y)
    /\ Reaches("Top", last.msg.x, last.msg.y)
    /\ edge_get(edge_devices, "Top") # {}
    /\ \E e \in edge_get(edge_devices, "Top") : Registered(e.id)
    /\ state.kind = "Local"

\* C31: when a handler's cleanup removes its peer's entry from the registry,
\* remove_device has already run: the focus is not on that device any more.
C31_RevertBeforeUnregister ==
    [][\A c \in Conns :
          pc[c] = "rm_peers" /\ pc'[c] = "rm_focus"
              => ~FocusOn(state, hello[c].id)]_vars

\* The router step that was just taken enqueued a MouseDelta / moved the
\* focus from Local to a device.
EmitsDelta == IsMove /\ \E i \in 1..Len(sent) : sent[i].msg.type = "MouseDelta"
Enters == IsMove /\ last.pre.kind = "Local" /\ state.kind = "Remote"

\* C32: the invocation of handle_input_message that enqueues a MouseDelta
\* in Remote, and the one whose MouseMove enters a device, queues the warp
\* to the centre itself, as its one local action: the warp is in the
\* channel when the input task takes its next event.
C32_WarpInSameInvocation ==
    (EmitsDelta \/ Enters) => acts = <<MoveMouse(center_x, center_y)>>

C32_Witness ==
    /\ EmitsDelta
    /\ last.pre.kind = "Remote"
    /\ Registered(last.pre.device_id)
    /\ acts = <<MoveMouse(center_x, center_y)>>

\* Every captured event has been handled and every queued warp executed.
Settled == desk.input_rx = <<>> /\ desk.local_action_rx = <<>>

\* C33: whatever the order in which the capture thread, the router and the
\* LocalAction thread run, once every captured event has been handled and
\* every warp executed, the MouseDelta.dx enqueued for the focus device
\* since the entry add up to the motion of the hand in the events handled
\* since the entry.
C33_DeltasAddUp ==
    (Settled /\ state.kind = "Remote") => desk.forwarded = Px(desk.hand)

\* What task t is about to execute, and whether it holds a lock / waits
\* for one.
OpAt(t) ==
    IF locks.at[t] <= Len(program(t)) THEN program(t)[locks.at[t]]
    ELSE [do |-> "end", on |-> "none"]
Holds(t, lock) ==
    /\ granted(locks[lock], t)
    /\ ~(OpAt(t).do = "got" /\ OpAt(t).on = lock)
WaitsFor(t, lock) ==
    /\ OpAt(t).do = "got"
    /\ OpAt(t).on = lock
    /\ ~granted(locks[lock], t)

\* C34: a task that stands at a read or a write of its socket does not
\* hold the focus mutex; the input task holds it for one event only, not
\* while it waits for the next.
C34_NoIoUnderFocusLock ==
    \A t \in Tasks :
        OpAt(t).do \in {"io", "recv"} => ~Holds(t, "focus")

\* A handler is about to write Welcome while another task has the mutex.
C34_Witness ==
    \E t \in Conns :
        /\ OpAt(t) = [do |-> "io", on |-> "welcome"]
        /\ \E u \in Tasks \ {t} : Holds(u, "focus")

\* Task u stands before task t in the queue of the lock t waits for.
Blocks(u, t) ==
    \E lock \in {"focus", "peers"} :
        /\ WaitsFor(t, lock)
        /\ \E j, k \in 1..Len(locks[lock]) :
               j < k /\ locks[lock][j].task = u /\ locks[lock][k].task = t

\* C36: there is never a set of tasks each of which waits for a lock that
\* another task of the set holds or has asked for before it.
C36_NoDeadlock ==
    ~\E S \in SUBSET Tasks :
        /\ S # {}
        /\ \A t \in S : \E u \in S \ {t} : Blocks(u, t)

\* The input task, inside the focus mutex, waits for its read guard while a
\* handler has the write guard and another handler waits for the mutex.
C36_Witness ==
    /\ Holds("router", "focus")
    /\ WaitsFor("router", "peers")
    /\ \E c \in Conns :
           /\ Holds(c, "peers")
           /\ \E d \in Conns \ {c} : WaitsFor(d, "focus")

\* The device the event of a router step is for: the one that held focus
\* when the step began, or the one the step entered.
FocusDevice(before, after) ==
    IF before.kind = "Remote" THEN before.device_id
    ELSE IF after.kind = "Remote" THEN after.device_id
    ELSE None

\* C35: a step that makes a connection's outbound queue longer is a step
\* of the router, the connection is the one registered under the id of the
\* device that holds focus at that event (or is being entered), what is
\* appended is what the router sent to that device, and the router sent
\* nothing to any other device.
C35_OnlyFocusQueue ==
    [][\A c \in Conns :
          Len(queue'[c]) > Len(queue[c]) =>
              LET dev == FocusDevice(state, state')
              IN  /\ last'.op = "input"
                  /\ \E p \in peers_get(peers, dev) : p.conn = c
                  /\ queue'[c] = queue[c] \o msgs_for(sent', c)
                  /\ \A i \in 1..Len(sent') :
                         sent'[i].to = dev /\ sent'[i].conn = c]_vars

\* The router has just enqueued for the focus device while another device
\* is registered as well.
C35_Witness ==
    /\ IsInput
    /\ sent # <<>>
    /\ \E p \in peers : p.id # sent[1].to
    /\ \E c \in Conns : queue[c] # <<>>

\* Connection c's handler has emitted DeviceConnected and not yet
\* DeviceDisconnected, going by where it stands.
Announced(c) ==
    pc[c] \in {"reg_peers", "reg_edge", "ready", "writing", "rm_peers",
               "rm_focus"}
\* The step is one of c's handler and emits ev.
EmitsEvent(c, ev) ==
    pc'[c] # pc[c] /\ \E i \in 1..Len(evts') : evts'[i] = ev

\* The part of C37 about order and number: DeviceConnected is emitted by
\* the step that completes the handshake, DeviceDisconnected by the step
\* that ends an announced handler, and a handler that has ended emits
\* nothing more.
C37_OnceAndAfter ==
    [][\A c \in Conns :
          /\ EmitsEvent(c, DeviceConnected(hello'[c].id)) <=>
                 (~Announced(c) /\ Announced(c)')
          /\ EmitsEvent(c, DeviceDisconnected(hello[c].id)) <=>
                 (Announced(c) /\ ~Announced(c)')
          /\ (Announced(c) /\ ~Announced(c)') => pc'[c] = "done"
          /\ pc[c] = "done" => pc'[c] = "done"]_vars

\* C37: per connection DeviceDisconnected is emitted at most once and only
\* after DeviceConnected, and a handler that has emitted DeviceConnected
\* emits DeviceDisconnected once the token has fired or its loop has ended.
C37_DisconnectedFollows ==
    /\ C37_OnceAndAfter
    /\ \A c \in Conns :
           (Announced(c) /\ (cancelled \/ pc[c] \in {"rm_peers", "rm_focus"}))
               ~> (pc[c] = "done")

\* The same for a handler none of whose sends is suspended.
C37_AtSelect ==
    \A c \in Conns :
        [](pc[c] # "writing") =>
            ((Announced(c) /\ (cancelled \/ pc[c] \in {"rm_peers", "rm_focus"}))
                 ~> (pc[c] = "done"))

\* What a FocusChanged event names for a FocusState.
Target(st) == IF st.kind = "Local" THEN "local" ELSE st.device_id

\* C38: a step that changes the focus target emits exactly one FocusChanged
\* event, which names the new target.
C38_FocusChangedOnEveryChange ==
    [][Target(state') # Target(state) =>
          SelectSeq(evts', LAMBDA e : e.type = "FocusChanged")
              = <<FocusChanged(Target(state'))>>]_vars

\* How far Client::connect has come.
ClientRank ==
    [start |-> 0, hello |-> 1, wait_welcome |-> 2, ready |-> 3, closed |-> 4]
HasEvent(evs, ev) == \E i \in 1..Len(evs) : evs[i] = ev

\* C39: Client::connect never goes back; Connected is emitted by the step
\* that receives Welcome while waiting for it and by no other, Disconnected
\* by the step that ends the receive loop and by no other (so once, and if
\* and only if Connected was emitted); a frame received in the receive loop
\* is passed to message_tx in the step that receives it unless it is Ping
\* or Pong, and nothing is passed on outside the receive loop.
C39_ClientEvents ==
    [][cvars' # cvars =>
          /\ ClientRank[cpc'] >= ClientRank[cpc]
          /\ cpc' = "ready" => cpc \in {"wait_welcome", "ready"}
          /\ HasEvent(cevts', Connected) <=>
                 (cpc = "wait_welcome" /\ cpc' = "ready")
          /\ HasEvent(cevts', Connected) => clast'.msg.type = "Welcome"
          /\ HasEvent(cevts', Disconnected) <=>
                 (cpc = "ready" /\ cpc' = "closed")
          /\ Len(cevts') <= 1
          /\ cfwd' # <<>> => cpc = "ready" /\ cpc' = "ready"
          /\ clast'.op = "ready_frame" =>
                 cfwd' = IF clast'.msg.type \in {"Ping", "Pong"} THEN <<>>
                         ELSE <<clast'.msg>>]_vars

\* In the receive loop a frame has just been passed to the upper layer.
C39_Witness ==
    /\ cpc = "ready"
    /\ clast.op = "ready_frame"
    /\ cfwd = <<clast.msg>>
    /\ clast.msg.type = "MouseDelta"

\* The session tasks that are running and whose token has not fired.
LiveSessions ==
    {i \in 1..MaxSessions : gui.task[i] = "running" /\ i \notin gui.fired}

\* The part of C40 about the commands: a start that finds role other than
\* Idle returns "Already running" and changes nothing else, and a start
\* spawns a session only when role is Idle.
C40_StartOnlyWhenIdle ==
    [][/\ (gui'.op = "start" /\ gui.role # "Idle") =>
              gui' = [gui EXCEPT !.op = "start", !.ret = "Already running"]
       /\ (\E i \in 1..MaxSessions :
               gui.task[i] = "unborn" /\ gui'.task[i] = "running")
              => gui.role = "Idle" /\ gui'.role # "Idle" /\ gui'.ret = "ok"]_vars

\* C40: role is other than Idle whenever a session task whose token has
\* not fired is running, and there is at most one such task.
C40_OneLiveSession ==
    /\ LiveSessions # {} => gui.role # "Idle"
    /\ Cardinality(LiveSessions) <= 1

====
